---- MODULE Spec2Model ----
(***************************************************************************)
(* Authentication core of task-management-api: the users, roles and       *)
(* user_sessions tables, the access / refresh tokens handed to clients,    *)
(* the service operations registerUser, loginUser, refreshAccessToken,     *)
(* logoutUser and logoutAllSessions, the authenticate and                  *)
(* optionalAuthenticate middlewares, the permission middlewares, the token *)
(* codec (verifyAccessToken, verifyRefreshToken,                           *)
(* getAccessTokenExpirationTime) and the administration of users and       *)
(* roles (createUser, updateUser, deleteUser, deleteUserPermanently,       *)
(* toggleUserStatus, updateRole, deleteRole, toggleRoleStatus).            *)
(*                                                                         *)
(* Time is counted in seconds (the resolution of a MySQL TIMESTAMP and of  *)
(* the JWT exp claim); the millisecond constants of the source are divided *)
(* by 1000.                                                                *)
(***************************************************************************)
EXTENDS Integers, Sequences, FiniteSets, TLC

VARIABLES
    users,          \* table users: id -> row
    roles,          \* table roles: id -> row
    sessions,       \* table user_sessions: id -> row
    tokens,         \* access tokens issued and kept by clients
    refreshJwts,    \* refresh JWTs returned by loginUser so far
    now,            \* the clock, Date.now() / NOW()
    advances,       \* number of clock steps taken
    res,            \* the last call: operation, inputs, thrown error or result
    streak,         \* history: per user, consecutive wrong-password logins
    revoked,        \* history: session ids a completed logoutUser or
                    \* logoutAllSessions call was to revoke
    autoIncrement,  \* the AUTO_INCREMENT counter of each table: the next id
    calls,          \* registerUser calls in flight, per request
    jwtConfig       \* the token configuration read from the environment

vars == <<users, roles, sessions, tokens, refreshJwts, now, advances, res,
          streak, revoked, autoIncrement, calls, jwtConfig>>

-----------------------------------------------------------------------------
(* Bounds of the model *)

MaxSessions == 2
MaxRefreshed == 1
MaxAdvance == 1
MaxTtlLen == 3

-----------------------------------------------------------------------------
(* Program constants *)

NULL == -1

MAX_LOGIN_ATTEMPTS == 5

LOCKOUT_TIME == 15 * 60

SESSION_TTL == 7 * 24 * 60 * 60

ACCESS_TOKEN_TTL == 15 * 60

REFRESH_TOKEN_TTL == 7 * 24 * 60 * 60

SystemRoles == {"super_admin", "admin", "manager", "user"}

\* Error codes and messages thrown by the auth core
INVALID_CREDENTIALS == "INVALID_CREDENTIALS"
ACCOUNT_LOCKED == "ACCOUNT_LOCKED"
TOKEN_INVALID == "TOKEN_INVALID"
TOKEN_EXPIRED == "TOKEN_EXPIRED"
REFRESH_TOKEN_INVALID == "REFRESH_TOKEN_INVALID"
PERMISSION_DENIED == "PERMISSION_DENIED"
RESOURCE_NOT_FOUND == "RESOURCE_NOT_FOUND"
DUPLICATE_ENTRY == "DUPLICATE_ENTRY"
VALIDATION_ERROR == "VALIDATION_ERROR"

-----------------------------------------------------------------------------
(* Inputs *)

\* Each email is tried with the password registered for it and with a wrong one
Credentials ==
    {<<"admin@taskmanagement.com", "admin123">>,
     <<"admin@taskmanagement.com", "wrong">>,
     <<"a@x.com", "Abc12345!">>,
     <<"a@x.com", "wrong">>,
     <<"nobody@x.com", "wrong">>}

\* Clock steps: one second, the lockout window (also the access-token
\* lifetime), the session lifetime
Deltas == {1, LOCKOUT_TIME, SESSION_TTL}

LockoutDeltas == {1, LOCKOUT_TIME, LOCKOUT_TIME + 1}

\* Requests that can be in flight at the same time
Requests == {1, 2}

Idle == [pc |-> "idle"]

\* TTL strings of the environment: sequences of these characters
TtlAlphabet == {"0", "1", "5", "s", "m", "h", "d", "x"}

RECURSIVE StringsOfLen(_)
StringsOfLen(n) ==
    IF n = 0 THEN {<<>>}
    ELSE {Append(str, c) : str \in StringsOfLen(n - 1), c \in TtlAlphabet}

TtlStrings == UNION {StringsOfLen(n) : n \in 0..MaxTtlLen}

-----------------------------------------------------------------------------
(* The token configuration and getAccessTokenExpirationTime.  A string is  *)
(* a sequence of characters; a number is NaN or an integer.                *)

DefaultJwtConfig ==
    [access_token_expires_in |-> <<"1", "5", "m">>,
     refresh_token_expires_in |-> <<"7", "d">>]

NaN == [nan |-> TRUE, n |-> 0]

Num(n) == [nan |-> FALSE, n |-> n]

Times(value, k) == IF value.nan THEN NaN ELSE Num(value.n * k)

DigitValue ==
    [c \in {"0", "1", "2", "3", "4", "5", "6", "7", "8", "9"} |->
        CASE c = "0" -> 0 [] c = "1" -> 1 [] c = "2" -> 2 [] c = "3" -> 3
          [] c = "4" -> 4 [] c = "5" -> 5 [] c = "6" -> 6 [] c = "7" -> 7
          [] c = "8" -> 8 [] c = "9" -> 9]

\* String.prototype.slice(0, -1) and slice(-1)
sliceButLast(str) == IF Len(str) = 0 THEN <<>> ELSE SubSeq(str, 1, Len(str) - 1)

sliceLast(str) == IF Len(str) = 0 THEN <<>> ELSE <<str[Len(str)]>>

\* parseInt: the decimal value of the longest prefix of digits, NaN if the
\* string does not begin with a digit
RECURSIVE digitsValue(_, _, _)
digitsValue(str, i, acc) ==
    IF i > Len(str) \/ str[i] \notin DOMAIN DigitValue THEN acc
    ELSE digitsValue(str, i + 1, 10 * acc + DigitValue[str[i]])

parseInt(str) ==
    IF Len(str) = 0 \/ str[1] \notin DOMAIN DigitValue THEN NaN
    ELSE Num(digitsValue(str, 1, 0))

ttlSeconds_MinutesAsSeconds(timeString) ==
    LET unit == sliceLast(timeString)
        value == parseInt(sliceButLast(timeString))
    IN  CASE unit = <<"s">> -> value
          [] unit = <<"m">> -> value
          [] unit = <<"h">> -> Times(value, 60 * 60)
          [] unit = <<"d">> -> Times(value, 24 * 60 * 60)
          [] OTHER -> Num(3600)

ttlSeconds(timeString) ==
    LET unit == sliceLast(timeString)
        value == parseInt(sliceButLast(timeString))
    IN  CASE unit = <<"s">> -> value
          [] unit = <<"m">> -> Times(value, 60)
          [] unit = <<"h">> -> Times(value, 60 * 60)
          [] unit = <<"d">> -> Times(value, 24 * 60 * 60)
          [] OTHER -> Num(3600)

getAccessTokenExpirationTime == ttlSeconds(jwtConfig.access_token_expires_in)

GetAccessTokenExpirationTime ==
    /\ res' = [op |-> "getAccessTokenExpirationTime",
               input |-> jwtConfig.access_token_expires_in,
               value |-> getAccessTokenExpirationTime]
    /\ UNCHANGED <<users, roles, sessions, tokens, refreshJwts, now, advances,
                   streak, revoked, autoIncrement, calls, jwtConfig>>

-----------------------------------------------------------------------------
(* bcrypt *)

bcryptHash(password) == <<"$2b$12$", password>>

bcryptCompare(password, hash) == hash = bcryptHash(password)

-----------------------------------------------------------------------------
(* Queries *)

NoUser == [id |-> NULL]

WithRole(id) ==
    LET u == users[id]
        r == roles[u.role_id]
    IN  [id |-> id,
         email |-> u.email,
         role_id |-> u.role_id,
         is_active |-> u.is_active,
         last_login |-> u.last_login,
         login_attempts |-> u.login_attempts,
         locked_until |-> u.locked_until,
         role |-> [id |-> u.role_id,
                   name |-> r.name,
                   permissions |-> r.permissions,
                   is_active |-> r.is_active]]

getUserById(id) ==
    IF id \in DOMAIN users /\ users[id].role_id \in DOMAIN roles
    THEN WithRole(id)
    ELSE NoUser

getUserByEmail(email) ==
    LET found == {id \in DOMAIN users :
                     users[id].email = email /\ users[id].role_id \in DOMAIN roles}
    IN  IF found = {} THEN NoUser ELSE WithRole(CHOOSE id \in found : TRUE)

isUserLocked_Inverted(user) ==
    IF user.locked_until = NULL THEN FALSE ELSE user.locked_until < now

isUserLocked(user) ==
    IF user.locked_until = NULL THEN FALSE ELSE user.locked_until > now

-----------------------------------------------------------------------------
(* Updates of the users table; each is one UPDATE statement *)

reachedMaxAttempts_Strict(attempts) == attempts > MAX_LOGIN_ATTEMPTS

reachedMaxAttempts(attempts) == attempts >= MAX_LOGIN_ATTEMPTS

lockUser_KeepAttempts(tbl, userId) ==
    [tbl EXCEPT ![userId].locked_until = now + LOCKOUT_TIME]

lockUser(tbl, userId) ==
    [tbl EXCEPT ![userId].locked_until = now + LOCKOUT_TIME,
                ![userId].login_attempts = 0]

incrementLoginAttempts(tbl, userId) ==
    [tbl EXCEPT ![userId].login_attempts = @ + 1]

resetLoginAttempts_KeepLock(tbl, userId) ==
    [tbl EXCEPT ![userId].login_attempts = 0,
                ![userId].last_login = now]

resetLoginAttempts(tbl, userId) ==
    [tbl EXCEPT ![userId].login_attempts = 0,
                ![userId].locked_until = NULL,
                ![userId].last_login = now]

-----------------------------------------------------------------------------
(* Sessions and tokens *)

NoToken == [typ |-> "none"]

Garbage == [typ |-> "garbage"]

\* crypto.randomBytes(32).toString('hex'): a fresh 64-digit hex string
randomHex(n) == [typ |-> "hex", n |-> n]

NextSessionId == autoIncrement.user_sessions

createUserSession_SingleDevice(userId) ==
    LET id == NextSessionId
        sessionToken == randomHex(2 * id - 1)
        refreshTokenRaw == randomHex(2 * id)
    IN  [sessionId |-> id,
         sessionToken |-> sessionToken,
         refreshToken |-> refreshTokenRaw,
         sessions |-> [sid \in DOMAIN sessions |->
                          IF sessions[sid].user_id = userId
                          THEN [sessions[sid] EXCEPT !.is_active = FALSE]
                          ELSE sessions[sid]]
                      @@ (id :> [user_id |-> userId,
                                 session_token |-> sessionToken,
                                 refresh_token |-> refreshTokenRaw,
                                 is_active |-> TRUE,
                                 expires_at |-> now + SESSION_TTL])]

createUserSession(userId) ==
    LET id == NextSessionId
        sessionToken == randomHex(2 * id - 1)
        refreshTokenRaw == randomHex(2 * id)
    IN  [sessionId |-> id,
         sessionToken |-> sessionToken,
         refreshToken |-> refreshTokenRaw,
         sessions |-> sessions @@ (id :> [user_id |-> userId,
                                          session_token |-> sessionToken,
                                          refresh_token |-> refreshTokenRaw,
                                          is_active |-> TRUE,
                                          expires_at |-> now + SESSION_TTL])]

generateAccessToken(payload) ==
    [typ |-> "JWT",
     user_id |-> payload.user_id,
     email |-> payload.email,
     role |-> payload.role,
     permissions |-> payload.permissions,
     session_id |-> payload.session_id,
     iat |-> now,
     exp |-> now + ACCESS_TOKEN_TTL]

generateRefreshToken(payload) ==
    [typ |-> "JWT",
     user_id |-> payload.user_id,
     email |-> payload.email,
     role |-> payload.role,
     session_id |-> payload.session_id,
     iat |-> now,
     exp |-> now + REFRESH_TOKEN_TTL]

-----------------------------------------------------------------------------
(* registerUser.  The call reads (the email lookup and the role lookup),   *)
(* hashes the password, and then inserts; other requests can run between   *)
(* its reads and its INSERT.                                                *)

\* A row of users as INSERT leaves it: the column defaults of bd.sql
NewUser(email, password, roleId) ==
    [email |-> email, password_hash |-> bcryptHash(password), role_id |-> roleId,
     is_active |-> TRUE, last_login |-> NULL, login_attempts |-> 0,
     locked_until |-> NULL]

\* users.email is UNIQUE: the INSERT of a second row with the email fails
UniqueEmail_NotEnforced(tbl, email) == TRUE

UniqueEmail(tbl, email) == \A id \in DOMAIN tbl : tbl[id].email # email

\* FOREIGN KEY (role_id) REFERENCES roles(id) ON DELETE RESTRICT: a write is
\* refused unless every row of users names a row of roles afterwards
ForeignKeyRole_NotEnforced(tblUsers, tblRoles) == TRUE

ForeignKeyRole(tblUsers, tblRoles) ==
    \A id \in DOMAIN tblUsers : tblUsers[id].role_id \in DOMAIN tblRoles

\* What the driver throws for an INSERT into users, and the status the error
\* handler answers it with
insertUserErrors(email, roleId) ==
    {[status |-> st, code |-> "ER_DUP_ENTRY", message |-> "Duplicate entry"] :
        st \in IF UniqueEmail(users, email) THEN {} ELSE {409, 500}}
    \cup
    {[status |-> 500, code |-> "ER_NO_REFERENCED_ROW_2",
      message |-> "a foreign key constraint fails"] :
        x \in IF roleId \in DOMAIN roles THEN {} ELSE {1}}

\* data.role_id || 4
requestedRole(data) ==
    IF data.role_id = NULL \/ data.role_id = 0 THEN 4 ELSE data.role_id

\* SELECT * FROM roles WHERE id = ? AND is_active = 1
activeRoleById(roleId) == roleId \in DOMAIN roles /\ roles[roleId].is_active

RegisterFailure(status, code, message) ==
    [ok |-> FALSE, status |-> status, code |-> code, message |-> message]

\* The reads of registerUser: what it throws, or that it goes on to insert
registerUserChecks(data) ==
    LET existingUser == getUserByEmail(data.email)
        roleId == requestedRole(data)
    IN  IF existingUser.id # NULL
        THEN RegisterFailure(409, DUPLICATE_ENTRY, "El email ya está registrado")
        ELSE IF ~activeRoleById(roleId)
        THEN RegisterFailure(400, VALIDATION_ERROR, "Rol no válido")
        ELSE [ok |-> TRUE, status |-> 200, code |-> "OK", message |-> ""]

RegisterStart(p, data) ==
    LET out == registerUserChecks(data)
    IN  /\ calls[p] = Idle
        /\ calls' = IF out.ok
                    THEN [calls EXCEPT ![p] =
                            [pc |-> "insert", email |-> data.email,
                             password |-> data.password,
                             role_id |-> requestedRole(data)]]
                    ELSE calls
        /\ res' = [op |-> "registerUser", step |-> "checks", request |-> p,
                   data |-> data, at |-> now, done |-> ~out.ok, ok |-> out.ok,
                   status |-> out.status, code |-> out.code,
                   message |-> out.message, user |-> NoUser]
        /\ UNCHANGED <<users, roles, sessions, tokens, refreshJwts, now,
                       advances, streak, revoked, autoIncrement, jwtConfig>>

\* The INSERT and the final getUserById.  A duplicate email makes the driver
\* throw its own error, which the error handler answers with 409 if the
\* message names ER_DUP_ENTRY and with 500 otherwise.
RegisterInsert(p) ==
    LET call == calls[p]
        id == autoIncrement.users
    IN  /\ call.pc = "insert"
        /\ calls' = [calls EXCEPT ![p] = Idle]
        /\ IF /\ UniqueEmail(users, call.email)
              /\ ForeignKeyRole(users @@ (id :> NewUser(call.email,
                                     call.password, call.role_id)), roles)
           THEN /\ users' = users @@
                       (id :> NewUser(call.email, call.password, call.role_id))
                /\ autoIncrement' = [autoIncrement EXCEPT !.users = @ + 1]
                /\ res' = [op |-> "registerUser", step |-> "insert",
                           request |-> p, email |-> call.email, at |-> now,
                           done |-> TRUE, ok |-> TRUE, status |-> 201,
                           code |-> "OK", message |-> "",
                           user |-> [id |-> id, email |-> call.email,
                                     role_id |-> call.role_id]]
           ELSE /\ UNCHANGED <<users, autoIncrement>>
                /\ \E err \in insertUserErrors(call.email, call.role_id) :
                       res' = [op |-> "registerUser", step |-> "insert",
                               request |-> p, email |-> call.email, at |-> now,
                               done |-> TRUE, ok |-> FALSE,
                               status |-> err.status, code |-> err.code,
                               message |-> err.message, user |-> NoUser]
        /\ UNCHANGED <<roles, sessions, tokens, refreshJwts, now, advances,
                       streak, revoked, jwtConfig>>

\* Registration requests: an email already registered and a new one, no role
\* (the default), the custom role, a role that does not exist
RegisterInputs ==
    {[email |-> e, password |-> "Secret123!", role_id |-> r] :
        e \in {"a@x.com", "b@x.com"}, r \in {NULL, 5, 9}}

-----------------------------------------------------------------------------
(* loginUser *)

LoginFailure(user, status, code, message, compared, tbl) ==
    [ok |-> FALSE, status |-> status, code |-> code, message |-> message,
     compared |-> compared, user |-> user, users |-> tbl, sessions |-> sessions,
     session_id |-> NULL, access_token |-> NoToken, refresh_token |-> NoToken]

UserNotFoundFailure_Leaky(user) ==
    LoginFailure(user, 404, "RESOURCE_NOT_FOUND", "Usuario no encontrado",
                 FALSE, users)

UserNotFoundFailure(user) ==
    LoginFailure(user, 401, INVALID_CREDENTIALS, "Credenciales inválidas",
                 FALSE, users)

LoginSuccess(user) ==
    LET tbl == resetLoginAttempts(users, user.id)
        session == createUserSession(user.id)
        jwtPayload == [user_id |-> user.id,
                       email |-> user.email,
                       role |-> user.role.name,
                       permissions |-> user.role.permissions,
                       session_id |-> session.sessionId]
    IN  [ok |-> TRUE, status |-> 200, code |-> "OK",
         message |-> "Inicio de sesión exitoso",
         compared |-> TRUE, user |-> user, users |-> tbl,
         sessions |-> session.sessions,
         session_id |-> session.sessionId,
         access_token |-> generateAccessToken(jwtPayload),
         refresh_token |-> generateRefreshToken(
                               [user_id |-> user.id,
                                email |-> user.email,
                                role |-> user.role.name,
                                session_id |-> session.sessionId])]

loginUser_CompareFirst(email, password) ==
    LET user == getUserByEmail(email)
    IN  IF user.id = NULL
        THEN UserNotFoundFailure(user)
        ELSE IF isUserLocked(user)
        THEN LoginFailure(user, 423, ACCOUNT_LOCKED,
                          "Cuenta bloqueada temporalmente", FALSE, users)
        ELSE IF ~bcryptCompare(password, users[user.id].password_hash)
        THEN LoginFailure(user, 401, INVALID_CREDENTIALS,
                          "Credenciales inválidas", TRUE,
                          incrementLoginAttempts(users, user.id))
        ELSE IF ~user.is_active
        THEN LoginFailure(user, 401, ACCOUNT_LOCKED,
                          "Cuenta deshabilitada", TRUE, users)
        ELSE LoginSuccess(user)

loginUser(email, password) ==
    LET user == getUserByEmail(email)
    IN  IF user.id = NULL
        THEN UserNotFoundFailure(user)
        ELSE IF isUserLocked(user)
        THEN LoginFailure(user, 423, ACCOUNT_LOCKED,
                          "Cuenta bloqueada temporalmente", FALSE, users)
        ELSE IF ~user.is_active
        THEN LoginFailure(user, 401, ACCOUNT_LOCKED,
                          "Cuenta deshabilitada", FALSE, users)
        ELSE IF ~bcryptCompare(password, users[user.id].password_hash)
        THEN LET tbl == incrementLoginAttempts(users, user.id)
                 attempts == tbl[user.id].login_attempts
             IN  IF reachedMaxAttempts(attempts)
                 THEN LoginFailure(user, 423, ACCOUNT_LOCKED,
                          "Demasiados intentos fallidos. Cuenta bloqueada temporalmente",
                          TRUE, lockUser(tbl, user.id))
                 ELSE LoginFailure(user, 401, INVALID_CREDENTIALS,
                                   "Credenciales inválidas", TRUE, tbl)
        ELSE LoginSuccess(user)

\* History: does this call count as a wrong-password attempt on an account
\* that is active and whose lock, if any, has run out?
UserOfEmail(email) == {id \in DOMAIN users : users[id].email = email}

Unlocked(id) == users[id].locked_until = NULL \/ users[id].locked_until <= now

WrongPasswordCall(id, password) ==
    /\ users[id].is_active
    /\ Unlocked(id)
    /\ users[id].password_hash # bcryptHash(password)

RightPasswordCall(id, password) ==
    /\ users[id].is_active
    /\ Unlocked(id)
    /\ users[id].password_hash = bcryptHash(password)

Login(email, password) ==
    LET out == loginUser(email, password)
    IN  /\ out.ok => NextSessionId <= MaxSessions
        /\ users' = out.users
        /\ sessions' = out.sessions
        /\ tokens' = IF out.ok THEN tokens \cup {out.access_token} ELSE tokens
        /\ refreshJwts' = IF out.ok THEN refreshJwts \cup {out.refresh_token}
                          ELSE refreshJwts
        /\ res' = [op |-> "login", email |-> email, password |-> password,
                   at |-> now, ok |-> out.ok, status |-> out.status,
                   code |-> out.code, message |-> out.message,
                   compared |-> out.compared, user |-> out.user,
                   session_id |-> out.session_id,
                   access_token |-> out.access_token,
                   refresh_token |-> out.refresh_token]
        /\ streak' = [id \in DOMAIN streak |->
                        IF id \notin UserOfEmail(email) THEN streak[id]
                        ELSE IF WrongPasswordCall(id, password)
                        THEN (IF streak[id] >= 5 THEN 1
                              ELSE streak[id] + 1)
                        ELSE IF RightPasswordCall(id, password) THEN 0
                        ELSE streak[id]]
        /\ autoIncrement' = IF out.ok
                            THEN [autoIncrement EXCEPT !.user_sessions = @ + 1]
                            ELSE autoIncrement
        /\ UNCHANGED <<roles, now, advances, revoked, calls, jwtConfig>>

-----------------------------------------------------------------------------
(* loginUser as concurrent requests.  Every await of the function is a     *)
(* point where another request can run: the user lookup with the checks    *)
(* that follow it, the password read and comparison, the UPDATE that       *)
(* counts the attempt, the read of the new count, the UPDATE that locks,   *)
(* and the UPDATE that resets followed by the session INSERT.              *)

LoginStep(p, step, done, status, code) ==
    [op |-> "loginUser", step |-> step, request |-> p, done |-> done,
     ok |-> done /\ status = 200, status |-> status, code |-> code, at |-> now]

\* getUserByEmail and the checks on the row it returned
LoginStart(p, email, password) ==
    LET user == getUserByEmail(email)
        out == IF user.id = NULL THEN <<401, INVALID_CREDENTIALS>>
               ELSE IF isUserLocked(user) THEN <<423, ACCOUNT_LOCKED>>
               ELSE IF ~user.is_active THEN <<401, ACCOUNT_LOCKED>>
               ELSE <<0, "">>
    IN  /\ calls[p] = Idle
        /\ calls' = IF out[1] = 0
                    THEN [calls EXCEPT ![p] =
                            [pc |-> "compare", user |-> user,
                             password |-> password]]
                    ELSE calls
        /\ res' = LoginStep(p, "checks", out[1] # 0, out[1], out[2])
        /\ UNCHANGED <<users, roles, sessions, tokens, refreshJwts, now,
                       advances, streak, revoked, autoIncrement, jwtConfig>>

\* SELECT password_hash FROM users WHERE id = ?, then bcrypt.compare; a row
\* that is gone makes the property access throw
LoginCompare(p) ==
    LET call == calls[p]
        id == call.user.id
    IN  /\ call.pc = "compare"
        /\ IF id \notin DOMAIN users
           THEN /\ calls' = [calls EXCEPT ![p] = Idle]
                /\ res' = LoginStep(p, "compare", TRUE, 500, "TypeError")
           ELSE /\ calls' = [calls EXCEPT ![p].pc =
                                IF bcryptCompare(call.password,
                                                 users[id].password_hash)
                                THEN "reset" ELSE "increment"]
                /\ res' = LoginStep(p, "compare", FALSE, 0, "")
        /\ UNCHANGED <<users, roles, sessions, tokens, refreshJwts, now,
                       advances, streak, revoked, autoIncrement, jwtConfig>>

\* incrementLoginAttempts: UPDATE users SET login_attempts = login_attempts + 1
LoginIncrement(p) ==
    LET call == calls[p]
        id == call.user.id
    IN  /\ call.pc = "increment"
        /\ users' = IF id \in DOMAIN users
                    THEN incrementLoginAttempts(users, id) ELSE users
        /\ calls' = [calls EXCEPT ![p].pc = "attempts"]
        /\ res' = LoginStep(p, "increment", FALSE, 0, "")
        /\ UNCHANGED <<roles, sessions, tokens, refreshJwts, now, advances,
                       streak, revoked, autoIncrement, jwtConfig>>

\* incrementLoginAttempts: getUserById and user?.login_attempts || 0, then
\* the comparison with MAX_LOGIN_ATTEMPTS
LoginReadAttempts(p) ==
    LET call == calls[p]
        user == getUserById(call.user.id)
        attempts == IF user.id = NULL THEN 0 ELSE user.login_attempts
    IN  /\ call.pc = "attempts"
        /\ IF reachedMaxAttempts(attempts)
           THEN /\ calls' = [calls EXCEPT ![p].pc = "lock"]
                /\ res' = LoginStep(p, "attempts", FALSE, 0, "")
                             @@ [attempts |-> attempts]
           ELSE /\ calls' = [calls EXCEPT ![p] = Idle]
                /\ res' = LoginStep(p, "attempts", TRUE, 401,
                                    INVALID_CREDENTIALS)
                             @@ [attempts |-> attempts]
        /\ UNCHANGED <<users, roles, sessions, tokens, refreshJwts, now,
                       advances, streak, revoked, autoIncrement, jwtConfig>>

\* lockUser, then the 423
LoginLock(p) ==
    LET call == calls[p]
        id == call.user.id
    IN  /\ call.pc = "lock"
        /\ users' = IF id \in DOMAIN users THEN lockUser(users, id) ELSE users
        /\ calls' = [calls EXCEPT ![p] = Idle]
        /\ res' = LoginStep(p, "lock", TRUE, 423, ACCOUNT_LOCKED)
        /\ UNCHANGED <<roles, sessions, tokens, refreshJwts, now, advances,
                       streak, revoked, autoIncrement, jwtConfig>>

\* resetLoginAttempts, createUserSession and the tokens of the response
LoginFinish(p) ==
    LET call == calls[p]
        out == LoginSuccess(call.user)
    IN  /\ call.pc = "reset"
        /\ call.user.id \in DOMAIN users
        /\ NextSessionId <= MaxSessions
        /\ users' = out.users
        /\ sessions' = out.sessions
        /\ tokens' = tokens \cup {out.access_token}
        /\ refreshJwts' = refreshJwts \cup {out.refresh_token}
        /\ autoIncrement' = [autoIncrement EXCEPT !.user_sessions = @ + 1]
        /\ calls' = [calls EXCEPT ![p] = Idle]
        /\ res' = LoginStep(p, "reset", TRUE, 200, "OK")
                     @@ [session_id |-> out.session_id]
        /\ UNCHANGED <<roles, now, advances, streak, revoked, jwtConfig>>

-----------------------------------------------------------------------------
(* refreshAccessToken *)

\* SELECT * FROM user_sessions WHERE refresh_token = ? AND is_active = 1
\* AND expires_at > NOW(); refresh_token is UNIQUE, so at most one row
activeSessionByRefreshToken_NoExpiry(refreshToken) ==
    LET found == {id \in DOMAIN sessions :
                     /\ sessions[id].refresh_token = refreshToken
                     /\ sessions[id].is_active}
    IN  IF found = {} THEN NULL ELSE CHOOSE id \in found : TRUE

activeSessionByRefreshToken(refreshToken) ==
    LET found == {id \in DOMAIN sessions :
                     /\ sessions[id].refresh_token = refreshToken
                     /\ sessions[id].is_active
                     /\ sessions[id].expires_at > now}
    IN  IF found = {} THEN NULL ELSE CHOOSE id \in found : TRUE

refreshPayload_Stale(user, sid) ==
    LET issued == {t \in tokens : t.session_id = sid}
    IN  IF issued = {}
        THEN [user_id |-> user.id, email |-> user.email, role |-> user.role.name,
              permissions |-> user.role.permissions, session_id |-> sid]
        ELSE LET t == CHOOSE t \in issued : \A o \in issued : t.iat <= o.iat
             IN  [user_id |-> user.id, email |-> user.email, role |-> t.role,
                  permissions |-> t.permissions, session_id |-> sid]

refreshPayload(user, sid) ==
    [user_id |-> user.id,
     email |-> user.email,
     role |-> user.role.name,
     permissions |-> user.role.permissions,
     session_id |-> sid]

RefreshFailure(code, message) ==
    [ok |-> FALSE, status |-> 401, code |-> code, message |-> message,
     session_id |-> NULL, access_token |-> NoToken, refresh_token |-> NoToken]

refreshAccessToken_AnyUser(refreshToken) ==
    LET sid == activeSessionByRefreshToken(refreshToken)
    IN  IF sid = NULL
        THEN RefreshFailure(REFRESH_TOKEN_INVALID, "Refresh token inválido")
        ELSE LET user == getUserById(sessions[sid].user_id)
             IN  IF user.id = NULL
                 THEN RefreshFailure(TOKEN_INVALID, "Usuario no válido")
                 ELSE [ok |-> TRUE, status |-> 200, code |-> "OK",
                       message |-> "Token renovado exitosamente",
                       session_id |-> sid,
                       access_token |-> generateAccessToken(
                                            refreshPayload(user, sid)),
                       refresh_token |-> refreshToken]

refreshAccessToken(refreshToken) ==
    LET sid == activeSessionByRefreshToken(refreshToken)
    IN  IF sid = NULL
        THEN RefreshFailure(REFRESH_TOKEN_INVALID, "Refresh token inválido")
        ELSE LET user == getUserById(sessions[sid].user_id)
             IN  IF user.id = NULL \/ ~user.is_active
                 THEN RefreshFailure(TOKEN_INVALID, "Usuario no válido")
                 ELSE [ok |-> TRUE, status |-> 200, code |-> "OK",
                       message |-> "Token renovado exitosamente",
                       session_id |-> sid,
                       access_token |-> generateAccessToken(
                                            refreshPayload(user, sid)),
                       refresh_token |-> refreshToken]

\* Clients keep the access token of each login; a client may keep or drop
\* the access token a refresh returns, and at most MaxRefreshed are kept
CanKeepToken == Cardinality(tokens) < Cardinality(DOMAIN sessions) + MaxRefreshed

Refresh_Sliding(refreshToken, keep) ==
    LET out == refreshAccessToken(refreshToken)
    IN  /\ keep => out.ok /\ CanKeepToken
        /\ tokens' = IF keep THEN tokens \cup {out.access_token} ELSE tokens
        /\ sessions' = IF out.ok
                       THEN [sessions EXCEPT ![out.session_id].expires_at =
                                                 now + SESSION_TTL]
                       ELSE sessions
        /\ res' = [op |-> "refresh", input |-> refreshToken, at |-> now,
                   ok |-> out.ok, status |-> out.status, code |-> out.code,
                   message |-> out.message, session_id |-> out.session_id,
                   access_token |-> out.access_token,
                   refresh_token |-> out.refresh_token]
        /\ UNCHANGED <<users, roles, refreshJwts, now, advances, streak,
                       revoked, autoIncrement, calls, jwtConfig>>

Refresh(refreshToken, keep) ==
    LET out == refreshAccessToken(refreshToken)
    IN  /\ keep => out.ok /\ CanKeepToken
        /\ tokens' = IF keep THEN tokens \cup {out.access_token} ELSE tokens
        /\ res' = [op |-> "refresh", input |-> refreshToken, at |-> now,
                   ok |-> out.ok, status |-> out.status, code |-> out.code,
                   message |-> out.message, session_id |-> out.session_id,
                   access_token |-> out.access_token,
                   refresh_token |-> out.refresh_token]
        /\ UNCHANGED <<users, roles, sessions, refreshJwts, now, advances,
                       streak, revoked,
                       autoIncrement, calls, jwtConfig>>

\* What a client can send as refresh_token: a stored session secret, the
\* refresh_token of a login response, or anything else
RefreshInputs ==
    {sessions[id].refresh_token : id \in DOMAIN sessions}
        \cup refreshJwts \cup {Garbage}

-----------------------------------------------------------------------------
(* logoutUser, logoutAllSessions *)

logoutUser_WholeUser(sessionId) ==
    [id \in DOMAIN sessions |->
        IF sessionId \in DOMAIN sessions
           /\ sessions[id].user_id = sessions[sessionId].user_id
        THEN [sessions[id] EXCEPT !.is_active = FALSE]
        ELSE sessions[id]]

logoutUser(sessionId) ==
    [id \in DOMAIN sessions |->
        IF id = sessionId
        THEN [sessions[id] EXCEPT !.is_active = FALSE]
        ELSE sessions[id]]

logoutAllSessions_Newest(userId) ==
    LET own == {id \in DOMAIN sessions : sessions[id].user_id = userId}
    IN  [id \in DOMAIN sessions |->
            IF id \in own /\ \A other \in own : other <= id
            THEN [sessions[id] EXCEPT !.is_active = FALSE]
            ELSE sessions[id]]

logoutAllSessions(userId) ==
    [id \in DOMAIN sessions |->
        IF sessions[id].user_id = userId
        THEN [sessions[id] EXCEPT !.is_active = FALSE]
        ELSE sessions[id]]

Logout(sessionId) ==
    /\ sessions' = logoutUser(sessionId)
    /\ revoked' = revoked \cup ({sessionId} \cap DOMAIN sessions)
    /\ res' = [op |-> "logout", session_id |-> sessionId, at |-> now]
    /\ UNCHANGED <<users, roles, tokens, refreshJwts, now, advances, streak,
                       autoIncrement, calls, jwtConfig>>

LogoutAll(userId) ==
    /\ sessions' = logoutAllSessions(userId)
    /\ revoked' = revoked \cup
           {id \in DOMAIN sessions : sessions[id].user_id = userId}
    /\ res' = [op |-> "logoutAll", user_id |-> userId, at |-> now]
    /\ UNCHANGED <<users, roles, tokens, refreshJwts, now, advances, streak,
                       autoIncrement, calls, jwtConfig>>

-----------------------------------------------------------------------------
(* The authenticate middleware *)

\* jwt.verify: signature, issuer and audience, then expiry
verifyAccessToken(token) ==
    IF token.typ # "JWT" THEN [ok |-> FALSE, code |-> TOKEN_INVALID]
    ELSE IF now >= token.exp THEN [ok |-> FALSE, code |-> TOKEN_EXPIRED]
    ELSE [ok |-> TRUE, code |-> "OK"]

\* jwt.verify throws TokenExpiredError only after the signature, issuer and
\* audience checks passed; both branches of the catch give the same code
verifyRefreshToken(token) ==
    IF token.typ # "JWT" THEN [ok |-> FALSE, code |-> REFRESH_TOKEN_INVALID]
    ELSE IF now >= token.exp THEN [ok |-> FALSE, code |-> REFRESH_TOKEN_INVALID]
    ELSE [ok |-> TRUE, code |-> "OK"]

\* A token of this service with a broken signature or foreign claims
ForgedKinds == {"badSignature", "wrongIssuer", "wrongAudience"}

Forged(token, kind) == [token EXCEPT !.typ = kind]

VerifyInputs ==
    tokens \cup refreshJwts \cup {Garbage}
        \cup {Forged(t, k) : t \in tokens \cup refreshJwts, k \in ForgedKinds}

VerifyAccessToken(token) ==
    /\ res' = [op |-> "verifyAccessToken", token |-> token, at |-> now]
                @@ verifyAccessToken(token)
    /\ UNCHANGED <<users, roles, sessions, tokens, refreshJwts, now, advances,
                   streak, revoked, autoIncrement, calls, jwtConfig>>

VerifyRefreshToken(token) ==
    /\ res' = [op |-> "verifyRefreshToken", token |-> token, at |-> now]
                @@ verifyRefreshToken(token)
    /\ UNCHANGED <<users, roles, sessions, tokens, refreshJwts, now, advances,
                   streak, revoked, autoIncrement, calls, jwtConfig>>

getActiveSessionById_AnyRow(sessionId) ==
    IF sessionId \in DOMAIN sessions THEN sessionId ELSE NULL

getActiveSessionById(sessionId) ==
    IF /\ sessionId \in DOMAIN sessions
       /\ sessions[sessionId].is_active
       /\ sessions[sessionId].expires_at > now
    THEN sessionId
    ELSE NULL

NoHeader == [scheme |-> "none"]

Bearer(token) == [scheme |-> "Bearer", token |-> token]

AuthFailure_Generic(code, message) ==
    [ok |-> FALSE, status |-> 401, code |-> TOKEN_INVALID,
     message |-> "Invalid token", user |-> NoUser, session |-> NULL]

AuthFailure(code, message) ==
    [ok |-> FALSE, status |-> 401, code |-> code, message |-> message,
     user |-> NoUser, session |-> NULL]

authenticate_LockAware(authHeader) ==
    IF authHeader.scheme = "none"
    THEN AuthFailure(TOKEN_INVALID, "Token de autorización requerido")
    ELSE IF authHeader.scheme # "Bearer"
    THEN AuthFailure(TOKEN_INVALID, "Formato de token inválido")
    ELSE LET verified == verifyAccessToken(authHeader.token)
         IN  IF ~verified.ok
             THEN AuthFailure(verified.code, "Invalid token")
             ELSE LET payload == authHeader.token
                      session == getActiveSessionById(payload.session_id)
                      user == getUserById(payload.user_id)
                  IN  IF session = NULL
                      THEN AuthFailure(TOKEN_INVALID, "Sesión inválida o expirada")
                      ELSE IF user.id = NULL
                      THEN AuthFailure(TOKEN_INVALID, "Usuario no encontrado")
                      ELSE IF ~user.is_active \/ isUserLocked(user)
                      THEN AuthFailure(ACCOUNT_LOCKED, "Cuenta deshabilitada")
                      ELSE IF ~user.role.is_active
                      THEN AuthFailure(PERMISSION_DENIED, "Rol deshabilitado")
                      ELSE [ok |-> TRUE, status |-> 200, code |-> "OK",
                            message |-> "", user |-> user, session |-> session]

authenticate(authHeader) ==
    IF authHeader.scheme = "none"
    THEN AuthFailure(TOKEN_INVALID, "Token de autorización requerido")
    ELSE IF authHeader.scheme # "Bearer"
    THEN AuthFailure(TOKEN_INVALID, "Formato de token inválido")
    ELSE LET verified == verifyAccessToken(authHeader.token)
         IN  IF ~verified.ok
             THEN AuthFailure(verified.code, "Invalid token")
             ELSE LET payload == authHeader.token
                      session == getActiveSessionById(payload.session_id)
                      user == getUserById(payload.user_id)
                  IN  IF session = NULL
                      THEN AuthFailure(TOKEN_INVALID, "Sesión inválida o expirada")
                      ELSE IF user.id = NULL
                      THEN AuthFailure(TOKEN_INVALID, "Usuario no encontrado")
                      ELSE IF ~user.is_active
                      THEN AuthFailure(ACCOUNT_LOCKED, "Cuenta deshabilitada")
                      ELSE IF ~user.role.is_active
                      THEN AuthFailure(PERMISSION_DENIED, "Rol deshabilitado")
                      ELSE [ok |-> TRUE, status |-> 200, code |-> "OK",
                            message |-> "", user |-> user, session |-> session]

Authenticate(authHeader) ==
    LET out == authenticate(authHeader)
    IN  /\ res' = [op |-> "authenticate", header |-> authHeader, at |-> now,
                   ok |-> out.ok, status |-> out.status, code |-> out.code,
                   message |-> out.message, user |-> out.user,
                   session |-> out.session]
        /\ UNCHANGED <<users, roles, sessions, tokens, refreshJwts, now,
                       advances, streak, revoked,
                       autoIncrement, calls, jwtConfig>>

\* optionalAuthenticate: next() is always called without an error; the
\* request carries a user and a session only if every check passed
Guest == [ok |-> TRUE, user |-> NoUser, session |-> NULL]

optionalAuthenticate_SkipsRole(authHeader) ==
    IF authHeader.scheme # "Bearer" THEN Guest
    ELSE IF ~verifyAccessToken(authHeader.token).ok THEN Guest
    ELSE LET payload == authHeader.token
             session == getActiveSessionById(payload.session_id)
             user == getUserById(payload.user_id)
         IN  IF session # NULL /\ user.id # NULL /\ user.is_active
             THEN [ok |-> TRUE, user |-> user, session |-> session]
             ELSE Guest

optionalAuthenticate(authHeader) ==
    IF authHeader.scheme # "Bearer" THEN Guest
    ELSE IF ~verifyAccessToken(authHeader.token).ok THEN Guest
    ELSE LET payload == authHeader.token
             session == getActiveSessionById(payload.session_id)
         IN  IF session = NULL THEN Guest
             ELSE LET user == getUserById(payload.user_id)
                  IN  IF user.id # NULL /\ user.is_active /\ user.role.is_active
                      THEN [ok |-> TRUE, user |-> user, session |-> session]
                      ELSE Guest

OptionalAuthenticate(authHeader) ==
    LET out == optionalAuthenticate(authHeader)
    IN  /\ res' = [op |-> "optionalAuthenticate", header |-> authHeader,
                   at |-> now, ok |-> out.ok, user |-> out.user,
                   session |-> out.session]
        /\ UNCHANGED <<users, roles, sessions, tokens, refreshJwts, now,
                       advances, streak, revoked, autoIncrement, calls,
                       jwtConfig>>

\* What a client can send as Authorization header
AuthHeaders ==
    {NoHeader, [scheme |-> "Basic", token |-> Garbage], Bearer(Garbage)}
        \cup {Bearer(t) : t \in tokens \cup refreshJwts}

-----------------------------------------------------------------------------
(* The permission middlewares.  Each reads req.user, the identity that the  *)
(* middleware mounted before it attached; a permission or role-name list is *)
(* an array, a role's permissions a set.                                    *)

GuardPass == [ok |-> TRUE, status |-> 200, code |-> "OK", message |-> ""]

GuardFailure(status, code, message) ==
    [ok |-> FALSE, status |-> status, code |-> code, message |-> message]

NotAuthenticated == GuardFailure(401, TOKEN_INVALID, "Usuario no autenticado")

\* Array.prototype.includes / some / every
includes(list, x) == \E i \in 1..Len(list) : list[i] = x

some(list, P) == \E i \in 1..Len(list) : list[i] \in P

every(list, P) == \A i \in 1..Len(list) : list[i] \in P

requirePermission_NoWildcard(user, permission) ==
    IF user.id = NULL THEN NotAuthenticated
    ELSE IF permission \notin user.role.permissions
    THEN GuardFailure(403, PERMISSION_DENIED, "Permisos insuficientes")
    ELSE GuardPass

requirePermission(user, permission) ==
    IF user.id = NULL THEN NotAuthenticated
    ELSE LET hasPermission == \/ permission \in user.role.permissions
                              \/ "*" \in user.role.permissions
         IN  IF ~hasPermission
             THEN GuardFailure(403, PERMISSION_DENIED, "Permisos insuficientes")
             ELSE GuardPass

requireAnyPermission(user, permissions) ==
    IF user.id = NULL THEN NotAuthenticated
    ELSE LET hasAnyPermission == \/ some(permissions, user.role.permissions)
                                 \/ "*" \in user.role.permissions
         IN  IF ~hasAnyPermission
             THEN GuardFailure(403, PERMISSION_DENIED, "Permisos insuficientes")
             ELSE GuardPass

requireAllPermissions_AsAny(user, permissions) ==
    requireAnyPermission(user, permissions)

requireAllPermissions(user, permissions) ==
    IF user.id = NULL THEN NotAuthenticated
    ELSE LET hasAllPermissions == \/ every(permissions, user.role.permissions)
                                  \/ "*" \in user.role.permissions
         IN  IF ~hasAllPermissions
             THEN GuardFailure(403, PERMISSION_DENIED, "Permisos insuficientes")
             ELSE GuardPass

\* !resourceUserId: undefined and 0 are both falsy
requireOwnership_AdminFirst(user, resourceUserId) ==
    IF user.id = NULL THEN NotAuthenticated
    ELSE IF "*" \in user.role.permissions THEN GuardPass
    ELSE IF resourceUserId = NULL \/ resourceUserId = 0
    THEN GuardFailure(404, RESOURCE_NOT_FOUND, "Recurso no encontrado")
    ELSE IF user.id # resourceUserId
    THEN GuardFailure(403, PERMISSION_DENIED,
                      "Solo el propietario puede acceder a este recurso")
    ELSE GuardPass

requireOwnership(user, resourceUserId) ==
    IF user.id = NULL THEN NotAuthenticated
    ELSE IF resourceUserId = NULL \/ resourceUserId = 0
    THEN GuardFailure(404, RESOURCE_NOT_FOUND, "Recurso no encontrado")
    ELSE LET isOwner == user.id = resourceUserId
             hasAdminPermissions == "*" \in user.role.permissions
         IN  IF ~isOwner /\ ~hasAdminPermissions
             THEN GuardFailure(403, PERMISSION_DENIED,
                               "Solo el propietario puede acceder a este recurso")
             ELSE GuardPass

requireRole_WildcardBypass(user, roleNames) ==
    IF user.id = NULL THEN NotAuthenticated
    ELSE IF ~includes(roleNames, user.role.name)
            /\ "*" \notin user.role.permissions
    THEN GuardFailure(403, PERMISSION_DENIED, "Rol insuficiente")
    ELSE GuardPass

requireRole(user, roleNames) ==
    IF user.id = NULL THEN NotAuthenticated
    ELSE LET hasRole == includes(roleNames, user.role.name)
         IN  IF ~hasRole
             THEN GuardFailure(403, PERMISSION_DENIED, "Rol insuficiente")
             ELSE GuardPass

\* A request through a route that mounts authenticate or optionalAuthenticate
\* and then one permission middleware.  A failing authenticate calls
\* next(error), which skips the permission middleware.
Identify(authHeader, entry) ==
    IF entry = "authenticate"
    THEN LET a == authenticate(authHeader)
         IN  [failed |-> ~a.ok, user |-> a.user, session |-> a.session,
              error |-> GuardFailure(a.status, a.code, a.message)]
    ELSE LET a == optionalAuthenticate(authHeader)
         IN  [failed |-> FALSE, user |-> a.user, session |-> a.session,
              error |-> GuardPass]

Respond(op, authHeader, entry, arg, req, out) ==
    /\ res' = [op |-> op, header |-> authHeader, entry |-> entry, arg |-> arg,
               at |-> now, reached |-> ~req.failed, user |-> req.user,
               ok |-> out.ok, status |-> out.status, code |-> out.code,
               message |-> out.message]
    /\ UNCHANGED <<users, roles, sessions, tokens, refreshJwts, now, advances,
                   streak, revoked, autoIncrement, calls, jwtConfig>>

RequirePermission(authHeader, entry, permission) ==
    LET req == Identify(authHeader, entry)
    IN  Respond("requirePermission", authHeader, entry, permission, req,
                IF req.failed THEN req.error
                ELSE requirePermission(req.user, permission))

RequireAnyPermission(authHeader, entry, permissions) ==
    LET req == Identify(authHeader, entry)
    IN  Respond("requireAnyPermission", authHeader, entry, permissions, req,
                IF req.failed THEN req.error
                ELSE requireAnyPermission(req.user, permissions))

RequireAllPermissions(authHeader, entry, permissions) ==
    LET req == Identify(authHeader, entry)
    IN  Respond("requireAllPermissions", authHeader, entry, permissions, req,
                IF req.failed THEN req.error
                ELSE requireAllPermissions(req.user, permissions))

RequireOwnership(authHeader, entry, resourceUserId) ==
    LET req == Identify(authHeader, entry)
    IN  Respond("requireOwnership", authHeader, entry, resourceUserId, req,
                IF req.failed THEN req.error
                ELSE requireOwnership(req.user, resourceUserId))

RequireRole(authHeader, entry, roleNames) ==
    LET req == Identify(authHeader, entry)
    IN  Respond("requireRole", authHeader, entry, roleNames, req,
                IF req.failed THEN req.error
                ELSE requireRole(req.user, roleNames))

\* What routes require, and what a resource's owner id resolves to
\* (undefined, 0, or a user id)
GuardHeaders == {NoHeader} \cup {Bearer(t) : t \in tokens}

\* Routes mount authenticate; optionalAuthenticate is tried without a header
GuardRequests ==
    {<<h, "authenticate">> : h \in GuardHeaders}
        \cup {<<NoHeader, "optionalAuthenticate">>}

GuardPermissions == {"reports.view", "users.view"}

GuardPermissionLists ==
    {<<>>, <<"reports.view">>, <<"reports.view", "users.view">>}

GuardRoleNames == {<<"super_admin">>, <<"auditor", "user">>}

ResourceOwners == {NULL, 0, 1, 2}

-----------------------------------------------------------------------------
(* Administration: updateRole, updateUser *)

updateRole(id, data) ==
    IF id \notin DOMAIN roles
    THEN [ok |-> FALSE, status |-> 404, roles |-> roles]
    ELSE IF roles[id].name \in SystemRoles
    THEN [ok |-> FALSE, status |-> 403, roles |-> roles]
    ELSE [ok |-> TRUE, status |-> 200,
          roles |-> [roles EXCEPT ![id] =
                        [f \in DOMAIN roles[id] |->
                            IF f \in DOMAIN data THEN data[f] ELSE roles[id][f]]]]

UpdateRole(id, data) ==
    LET out == updateRole(id, data)
    IN  /\ roles' = out.roles
        /\ res' = [op |-> "updateRole", id |-> id, ok |-> out.ok,
                   status |-> out.status, at |-> now]
        /\ UNCHANGED <<users, sessions, tokens, refreshJwts, now, advances,
                       streak, revoked,
                       autoIncrement, calls, jwtConfig>>

RolePermissionUpdates ==
    {[permissions |-> {"reports.view"}],
     [permissions |-> {"reports.view", "users.view"}]}

RoleStatusUpdates == {[is_active |-> FALSE], [is_active |-> TRUE]}

RoleUpdates == RolePermissionUpdates \cup RoleStatusUpdates

\* The reads of updateUser: the status it throws, or 200 if it goes on to
\* the UPDATE.  The role is looked up only if data.role_id is truthy and
\* differs from the user's.
updateUserChecks(id, data) ==
    IF id \notin DOMAIN users THEN 404
    ELSE IF /\ "role_id" \in DOMAIN data
            /\ data.role_id # 0
            /\ data.role_id # users[id].role_id
            /\ ~activeRoleById(data.role_id)
    THEN 400
    ELSE 200

\* UPDATE users SET ... WHERE id = ?, then getUserByIdService(id)
updateUserWrite(id, data) ==
    IF id \notin DOMAIN users
    THEN [ok |-> FALSE, status |-> 404, users |-> users]
    ELSE LET tbl == [users EXCEPT ![id] =
                        [f \in DOMAIN users[id] |->
                            IF f \in DOMAIN data THEN data[f] ELSE users[id][f]]]
         IN  IF ForeignKeyRole(tbl, roles)
             THEN [ok |-> TRUE, status |-> 200, users |-> tbl]
             ELSE [ok |-> FALSE, status |-> 500, users |-> users]

updateUser(id, data) ==
    IF updateUserChecks(id, data) # 200
    THEN [ok |-> FALSE, status |-> updateUserChecks(id, data), users |-> users]
    ELSE updateUserWrite(id, data)

UpdateUser(id, data) ==
    LET out == updateUser(id, data)
    IN  /\ users' = out.users
        /\ res' = [op |-> "updateUser", id |-> id, ok |-> out.ok,
                   status |-> out.status, at |-> now]
        /\ UNCHANGED <<roles, sessions, tokens, refreshJwts, now, advances,
                       streak, revoked,
                       autoIncrement, calls, jwtConfig>>

UserRoleUpdates == {[role_id |-> 4], [role_id |-> 5]}

\* An update that leaves the custom role without any permission
RoleClearedPermissions == {[permissions |-> {}]}

\* DELETE FROM users WHERE id = ?; the sessions of the user go with it
\* (user_sessions.user_id ... ON DELETE CASCADE)
deleteUserPermanently(id) ==
    IF id \notin DOMAIN users
    THEN [ok |-> FALSE, status |-> 404, users |-> users, sessions |-> sessions]
    ELSE IF roles[users[id].role_id].name = "super_admin"
    THEN [ok |-> FALSE, status |-> 403, users |-> users, sessions |-> sessions]
    ELSE [ok |-> TRUE, status |-> 200,
          users |-> [u \in DOMAIN users \ {id} |-> users[u]],
          sessions |-> [sid \in {x \in DOMAIN sessions :
                                    sessions[x].user_id # id} |-> sessions[sid]]]

DeleteUserPermanently(id) ==
    LET out == deleteUserPermanently(id)
    IN  /\ users' = out.users
        /\ sessions' = out.sessions
        /\ res' = [op |-> "deleteUserPermanently", id |-> id, ok |-> out.ok,
                   status |-> out.status, at |-> now]
        /\ UNCHANGED <<roles, tokens, refreshJwts, now, advances, streak,
                       revoked, autoIncrement, calls, jwtConfig>>

UserStatusUpdates == {[is_active |-> FALSE], [is_active |-> TRUE]}

\* deleteUser: the soft delete, UPDATE users SET is_active = 0
deleteUser(id) ==
    IF id \notin DOMAIN users
    THEN [ok |-> FALSE, status |-> 404, users |-> users]
    ELSE IF roles[users[id].role_id].name = "super_admin"
    THEN [ok |-> FALSE, status |-> 403, users |-> users]
    ELSE [ok |-> TRUE, status |-> 200,
          users |-> [users EXCEPT ![id].is_active = FALSE]]

DeleteUser(id) ==
    LET out == deleteUser(id)
    IN  /\ users' = out.users
        /\ res' = [op |-> "deleteUser", id |-> id, ok |-> out.ok,
                   status |-> out.status, at |-> now]
        /\ UNCHANGED <<roles, sessions, tokens, refreshJwts, now, advances,
                       streak, revoked, autoIncrement, calls, jwtConfig>>

toggleUserStatus(id) ==
    IF id \notin DOMAIN users
    THEN [ok |-> FALSE, status |-> 404, users |-> users]
    ELSE IF roles[users[id].role_id].name = "super_admin"
    THEN [ok |-> FALSE, status |-> 403, users |-> users]
    ELSE [ok |-> TRUE, status |-> 200,
          users |-> [users EXCEPT ![id].is_active = ~@]]

ToggleUserStatus(id) ==
    LET out == toggleUserStatus(id)
    IN  /\ users' = out.users
        /\ res' = [op |-> "toggleUserStatus", id |-> id, ok |-> out.ok,
                   status |-> out.status, at |-> now]
        /\ UNCHANGED <<roles, sessions, tokens, refreshJwts, now, advances,
                       streak, revoked, autoIncrement, calls, jwtConfig>>

\* Ids in user-management requests: the administrator, the ordinary user,
\* nobody
UserIds == {1, 2, 3}

-----------------------------------------------------------------------------
(* Administration of roles and users as concurrent requests: each call     *)
(* reads, and then writes; other requests can run between the two.         *)

UpdateUserStart(p, id, data) ==
    LET status == updateUserChecks(id, data)
    IN  /\ calls[p] = Idle
        /\ calls' = IF status = 200
                    THEN [calls EXCEPT ![p] =
                            [pc |-> "update", id |-> id, data |-> data]]
                    ELSE calls
        /\ res' = [op |-> "updateUser", step |-> "checks", request |-> p,
                   id |-> id, done |-> status # 200, ok |-> status = 200,
                   status |-> status, at |-> now]
        /\ UNCHANGED <<users, roles, sessions, tokens, refreshJwts, now,
                       advances, streak, revoked, autoIncrement, jwtConfig>>

UpdateUserWrite(p) ==
    LET call == calls[p]
        out == updateUserWrite(call.id, call.data)
    IN  /\ call.pc = "update"
        /\ calls' = [calls EXCEPT ![p] = Idle]
        /\ users' = out.users
        /\ res' = [op |-> "updateUser", step |-> "write", request |-> p,
                   id |-> call.id, done |-> TRUE, ok |-> out.ok,
                   status |-> out.status, at |-> now]
        /\ UNCHANGED <<roles, sessions, tokens, refreshJwts, now, advances,
                       streak, revoked, autoIncrement, jwtConfig>>

\* Role changes of a user: the two assignable roles, a role that never
\* existed, and the falsy role id
UserRoleWrites == {[role_id |-> 4], [role_id |-> 5], [role_id |-> 9],
                   [role_id |-> 0]}

\* The reads of createUser
createUserChecks(data) ==
    LET existingUser == getUserByEmail(data.email)
    IN  IF existingUser.id # NULL
        THEN RegisterFailure(409, DUPLICATE_ENTRY, "El email ya está registrado")
        ELSE IF ~activeRoleById(data.role_id)
        THEN RegisterFailure(400, VALIDATION_ERROR, "Rol no válido o inactivo")
        ELSE [ok |-> TRUE, status |-> 200, code |-> "OK", message |-> ""]

CreateUserStart(p, data) ==
    LET out == createUserChecks(data)
    IN  /\ calls[p] = Idle
        /\ calls' = IF out.ok
                    THEN [calls EXCEPT ![p] =
                            [pc |-> "createInsert", email |-> data.email,
                             password |-> data.password,
                             role_id |-> data.role_id]]
                    ELSE calls
        /\ res' = [op |-> "createUser", step |-> "checks", request |-> p,
                   email |-> data.email, done |-> ~out.ok, ok |-> out.ok,
                   status |-> out.status, code |-> out.code, at |-> now]
        /\ UNCHANGED <<users, roles, sessions, tokens, refreshJwts, now,
                       advances, streak, revoked, autoIncrement, jwtConfig>>

\* The INSERT into users (the row of user_settings that follows it is not
\* part of the state) and the final getUserByIdService
CreateUserInsert(p) ==
    LET call == calls[p]
        id == autoIncrement.users
        row == NewUser(call.email, call.password, call.role_id)
    IN  /\ call.pc = "createInsert"
        /\ calls' = [calls EXCEPT ![p] = Idle]
        /\ IF UniqueEmail(users, call.email)
              /\ ForeignKeyRole(users @@ (id :> row), roles)
           THEN /\ users' = users @@ (id :> row)
                /\ autoIncrement' = [autoIncrement EXCEPT !.users = @ + 1]
                /\ res' = [op |-> "createUser", step |-> "insert",
                           request |-> p, email |-> call.email, done |-> TRUE,
                           ok |-> TRUE, status |-> 201, code |-> "OK",
                           at |-> now]
           ELSE /\ UNCHANGED <<users, autoIncrement>>
                /\ \E err \in insertUserErrors(call.email, call.role_id) :
                       res' = [op |-> "createUser", step |-> "insert",
                               request |-> p, email |-> call.email,
                               done |-> TRUE, ok |-> FALSE,
                               status |-> err.status, code |-> err.code,
                               at |-> now]
        /\ UNCHANGED <<roles, sessions, tokens, refreshJwts, now, advances,
                       streak, revoked, jwtConfig>>

CreateUserInputs ==
    {[email |-> e, password |-> "Secret123!", role_id |-> r] :
        e \in {"a@x.com", "c@x.com"}, r \in {5, 9}}

\* The reads of deleteRole: getRoleById, the system-role guard and the count
\* of users with the role
deleteRoleChecks(id) ==
    IF id \notin DOMAIN roles THEN 404
    ELSE IF roles[id].name \in SystemRoles THEN 403
    ELSE IF \E u \in DOMAIN users : users[u].role_id = id THEN 409
    ELSE 200

\* DELETE FROM roles WHERE id = ?
deleteRoleWrite(id) ==
    LET tbl == [r \in DOMAIN roles \ {id} |-> roles[r]]
    IN  IF ForeignKeyRole(users, tbl)
        THEN [ok |-> TRUE, status |-> 200, roles |-> tbl]
        ELSE [ok |-> FALSE, status |-> 500, roles |-> roles]

DeleteRoleStart(p, id) ==
    LET status == deleteRoleChecks(id)
    IN  /\ calls[p] = Idle
        /\ calls' = IF status = 200
                    THEN [calls EXCEPT ![p] = [pc |-> "delete", id |-> id]]
                    ELSE calls
        /\ res' = [op |-> "deleteRole", step |-> "checks", request |-> p,
                   id |-> id, done |-> status # 200, ok |-> status = 200,
                   status |-> status, at |-> now]
        /\ UNCHANGED <<users, roles, sessions, tokens, refreshJwts, now,
                       advances, streak, revoked, autoIncrement, jwtConfig>>

DeleteRoleDelete(p) ==
    LET call == calls[p]
        out == deleteRoleWrite(call.id)
    IN  /\ call.pc = "delete"
        /\ calls' = [calls EXCEPT ![p] = Idle]
        /\ roles' = out.roles
        /\ res' = [op |-> "deleteRole", step |-> "write", request |-> p,
                   id |-> call.id, done |-> TRUE, ok |-> out.ok,
                   status |-> out.status, at |-> now]
        /\ UNCHANGED <<users, sessions, tokens, refreshJwts, now, advances,
                       streak, revoked, autoIncrement, jwtConfig>>

toggleRoleStatus(id) ==
    IF id \notin DOMAIN roles
    THEN [ok |-> FALSE, status |-> 404, roles |-> roles]
    ELSE IF roles[id].name \in SystemRoles
    THEN [ok |-> FALSE, status |-> 403, roles |-> roles]
    ELSE [ok |-> TRUE, status |-> 200,
          roles |-> [roles EXCEPT ![id].is_active = ~@]]

ToggleRoleStatus(id) ==
    LET out == toggleRoleStatus(id)
    IN  /\ roles' = out.roles
        /\ res' = [op |-> "toggleRoleStatus", id |-> id, ok |-> out.ok,
                   status |-> out.status, at |-> now]
        /\ UNCHANGED <<users, sessions, tokens, refreshJwts, now, advances,
                       streak, revoked, autoIncrement, calls, jwtConfig>>

RoleIds == {1, 5, 9}

-----------------------------------------------------------------------------
(* The clock *)

Advance(d) ==
    /\ advances < MaxAdvance
    /\ now' = now + d
    /\ advances' = advances + 1
    /\ res' = [op |-> "advance"]
    /\ UNCHANGED <<users, roles, sessions, tokens, refreshJwts, streak,
                   revoked, autoIncrement, calls, jwtConfig>>

-----------------------------------------------------------------------------
(* Initial state: the seeded roles and administrator of bd.sql, one custom *)
(* role and one registered ordinary user; nobody is logged in.             *)

InitRoles ==
    (1 :> [name |-> "super_admin", permissions |-> {"*"}, is_active |-> TRUE])
    @@ (4 :> [name |-> "user",
              permissions |-> {"tasks.create", "tasks.edit.own",
                               "calendar.view", "profile.edit"},
              is_active |-> TRUE])
    @@ (5 :> [name |-> "auditor", permissions |-> {"reports.view"},
              is_active |-> TRUE])

InitUsers ==
    (1 :> NewUser("admin@taskmanagement.com", "admin123", 1))
    @@ (2 :> NewUser("a@x.com", "Abc12345!", 4))

Init ==
    /\ users = InitUsers
    /\ roles = InitRoles
    /\ sessions = <<>>
    /\ tokens = {}
    /\ refreshJwts = {}
    /\ now = 0
    /\ advances = 0
    /\ res = [op |-> "none"]
    /\ streak = [id \in DOMAIN InitUsers |-> 0]
    /\ revoked = {}
    /\ autoIncrement = [users |-> 3, user_sessions |-> 1]
    /\ calls = [p \in Requests |-> Idle]
    /\ jwtConfig = DefaultJwtConfig

\* The service started under any access-token TTL string
InitTtl ==
    /\ users = InitUsers
    /\ roles = InitRoles
    /\ sessions = <<>>
    /\ tokens = {}
    /\ refreshJwts = {}
    /\ now = 0
    /\ advances = 0
    /\ res = [op |-> "none"]
    /\ streak = [id \in DOMAIN InitUsers |-> 0]
    /\ revoked = {}
    /\ autoIncrement = [users |-> 3, user_sessions |-> 1]
    /\ calls = [p \in Requests |-> Idle]
    /\ \E str \in TtlStrings :
          jwtConfig = [DefaultJwtConfig EXCEPT !.access_token_expires_in = str]

NextTtl == GetAccessTokenExpirationTime

SpecTtl == InitTtl /\ [][NextTtl]_vars

\* The token codec: logins issue tokens, the clock runs, and both verify
\* functions are applied to issued, forged and malformed tokens
CodecDeltas == {ACCESS_TOKEN_TTL, REFRESH_TOKEN_TTL}

NextCodec ==
    \/ Login("a@x.com", "Abc12345!")
    \/ \E t \in VerifyInputs : VerifyAccessToken(t)
    \/ \E t \in VerifyInputs : VerifyRefreshToken(t)
    \/ \E d \in CodecDeltas : Advance(d)

SpecCodec == Init /\ [][NextCodec]_vars

\* Users and their roles: registration, user creation, role changes of the
\* ordinary user, and deletion, update and toggling of roles, interleaved
RoleRegisterInputs ==
    {[email |-> "b@x.com", password |-> "Secret123!", role_id |-> r] :
        r \in {NULL, 5}}

NextRoles ==
    \/ \E p \in Requests, data \in RoleRegisterInputs : RegisterStart(p, data)
    \/ \E p \in Requests : RegisterInsert(p)
    \/ \E p \in Requests, data \in CreateUserInputs : CreateUserStart(p, data)
    \/ \E p \in Requests : CreateUserInsert(p)
    \/ \E p \in Requests, data \in UserRoleWrites : UpdateUserStart(p, 2, data)
    \/ \E p \in Requests : UpdateUserWrite(p)
    \/ \E p \in Requests, id \in RoleIds : DeleteRoleStart(p, id)
    \/ \E p \in Requests : DeleteRoleDelete(p)
    \/ \E data \in RoleStatusUpdates : UpdateRole(5, data)
    \/ \E id \in RoleIds : ToggleRoleStatus(id)

SpecRoles == Init /\ [][NextRoles]_vars

\* Overlapping logins to one account: two requests at a time, with the
\* right or a wrong password, and the clock around the lockout window
RaceCredentials == {<<"a@x.com", "wrong">>, <<"a@x.com", "Abc12345!">>}

NextLoginRace ==
    \/ \E p \in Requests, c \in RaceCredentials : LoginStart(p, c[1], c[2])
    \/ \E p \in Requests : LoginCompare(p)
    \/ \E p \in Requests : LoginIncrement(p)
    \/ \E p \in Requests : LoginReadAttempts(p)
    \/ \E p \in Requests : LoginLock(p)
    \/ \E p \in Requests : LoginFinish(p)
    \/ Advance(LOCKOUT_TIME)

SpecLoginRace == Init /\ [][NextLoginRace]_vars

\* The three gates of the auth core (password login, refresh, authenticate)
\* for an account that is locked out, deactivated or deleted: logins of the
\* ordinary user with the right and a wrong password and of an unknown
\* email, logout, (de)activation and deletion of the user, and the lockout
\* window
GateCredentials ==
    {<<"a@x.com", "Abc12345!">>, <<"a@x.com", "wrong">>,
     <<"nobody@x.com", "wrong">>}

NextGate ==
    \/ \E c \in GateCredentials : Login(c[1], c[2])
    \/ \E t \in RefreshInputs : Refresh(t, FALSE)
    \/ \E h \in AuthHeaders : Authenticate(h)
    \/ \E id \in DOMAIN sessions : Logout(id)
    \/ LogoutAll(2)
    \/ \E data \in UserStatusUpdates : UpdateUser(2, data)
    \/ DeleteUserPermanently(2)
    \/ Advance(LOCKOUT_TIME)

SpecGate == Init /\ [][NextGate]_vars

\* User management: soft and permanent deletion, status toggling and updates
\* of status and role, for the administrator and the ordinary user, with
\* logins of both
NextUsers ==
    \/ \E c \in {<<"admin@taskmanagement.com", "admin123">>,
                  <<"a@x.com", "Abc12345!">>} : Login(c[1], c[2])
    \/ \E id \in UserIds : DeleteUser(id)
    \/ \E id \in UserIds : DeleteUserPermanently(id)
    \/ \E id \in UserIds : ToggleUserStatus(id)
    \/ \E id \in UserIds, data \in UserStatusUpdates \cup UserRoleUpdates :
           UpdateUser(id, data)

SpecUsers == Init /\ [][NextUsers]_vars

\* Every operation, with every input
Next ==
    \/ \E c \in Credentials : Login(c[1], c[2])
    \/ \E t \in RefreshInputs, keep \in BOOLEAN : Refresh(t, keep)
    \/ \E id \in DOMAIN sessions \cup {NextSessionId} : Logout(id)
    \/ \E id \in DOMAIN users : LogoutAll(id)
    \/ \E h \in AuthHeaders : Authenticate(h)
    \/ \E h \in AuthHeaders : OptionalAuthenticate(h)
    \/ \E r \in GuardRequests, p \in GuardPermissions :
           RequirePermission(r[1], r[2], p)
    \/ \E r \in GuardRequests, l \in GuardPermissionLists :
           RequireAnyPermission(r[1], r[2], l)
    \/ \E r \in GuardRequests, l \in GuardPermissionLists :
           RequireAllPermissions(r[1], r[2], l)
    \/ \E r \in GuardRequests, o \in ResourceOwners :
           RequireOwnership(r[1], r[2], o)
    \/ \E r \in GuardRequests, n \in GuardRoleNames :
           RequireRole(r[1], r[2], n)
    \/ \E p \in Requests, data \in RegisterInputs : RegisterStart(p, data)
    \/ \E p \in Requests : RegisterInsert(p)
    \/ \E id \in DOMAIN roles,
          data \in RoleUpdates \cup RoleClearedPermissions :
           UpdateRole(id, data)
    \/ \E id \in DOMAIN users, data \in UserRoleUpdates \cup UserStatusUpdates :
           UpdateUser(id, data)
    \/ \E id \in DOMAIN users : DeleteUserPermanently(id)
    \/ \E p \in Requests, data \in UserRoleWrites : UpdateUserStart(p, 2, data)
    \/ \E p \in Requests : UpdateUserWrite(p)
    \/ \E p \in Requests, data \in CreateUserInputs : CreateUserStart(p, data)
    \/ \E p \in Requests : CreateUserInsert(p)
    \/ \E p \in Requests, id \in RoleIds : DeleteRoleStart(p, id)
    \/ \E p \in Requests : DeleteRoleDelete(p)
    \/ \E id \in RoleIds : ToggleRoleStatus(id)
    \/ \E p \in Requests, c \in Credentials : LoginStart(p, c[1], c[2])
    \/ \E p \in Requests : LoginCompare(p)
    \/ \E p \in Requests : LoginIncrement(p)
    \/ \E p \in Requests : LoginReadAttempts(p)
    \/ \E p \in Requests : LoginLock(p)
    \/ \E p \in Requests : LoginFinish(p)
    \/ \E id \in UserIds : DeleteUser(id)
    \/ \E id \in UserIds : ToggleUserStatus(id)
    \/ GetAccessTokenExpirationTime
    \/ \E t \in VerifyInputs : VerifyAccessToken(t)
    \/ \E t \in VerifyInputs : VerifyRefreshToken(t)
    \/ \E d \in Deltas : Advance(d)

Spec == Init /\ [][Next]_vars

\* The login-attempt guard: password logins of the ordinary user and of an
\* unknown email, right-password logins of the administrator, account
\* (de)activation, and the clock around the lockout window
LockoutCredentials == Credentials \ {<<"admin@taskmanagement.com", "wrong">>}

NextLogin ==
    \/ \E c \in LockoutCredentials : Login(c[1], c[2])
    \/ \E data \in UserStatusUpdates : UpdateUser(2, data)
    \/ \E d \in LockoutDeltas : Advance(d)

SpecLogin == Init /\ [][NextLogin]_vars

\* Session revocation: right-password logins, refresh, logout, the
\* authenticate middleware, and the clock around the token and session
\* lifetimes
SessionCredentials == {c \in Credentials : c[2] # "wrong"}

SessionDeltas == {ACCESS_TOKEN_TTL, SESSION_TTL}

NextSession ==
    \/ \E c \in SessionCredentials : Login(c[1], c[2])
    \/ \E t \in RefreshInputs, keep \in BOOLEAN : Refresh(t, keep)
    \/ \E id \in DOMAIN sessions \cup {NextSessionId} : Logout(id)
    \/ \E id \in DOMAIN users : LogoutAll(id)
    \/ \E h \in AuthHeaders : Authenticate(h)
    \/ \E d \in SessionDeltas : Advance(d)

SpecSession == Init /\ [][NextSession]_vars

\* Token refresh under role administration: right-password logins, refresh,
\* edits of the custom role, role reassignment and (de)activation of the
\* ordinary user, and the clock
NextRefresh ==
    \/ \E c \in SessionCredentials : Login(c[1], c[2])
    \/ \E t \in RefreshInputs : Refresh(t, FALSE)
    \/ \E data \in RolePermissionUpdates : UpdateRole(5, data)
    \/ \E data \in UserRoleUpdates \cup UserStatusUpdates : UpdateUser(2, data)
    \/ \E d \in SessionDeltas : Advance(d)

SpecRefresh == Init /\ [][NextRefresh]_vars

\* The authenticate middleware under administration: logins of the ordinary
\* user, logout, the ordinary user moved to the custom role, that role
\* emptied of permissions or deactivated, users deactivated or deleted,
\* authenticate and optionalAuthenticate, and the clock stepping by the
\* access-token lifetime
NextAuth ==
    \/ Login("a@x.com", "Abc12345!")
    \/ \E id \in DOMAIN sessions : Logout(id)
    \/ \E data \in RoleClearedPermissions \cup {[is_active |-> FALSE]} :
           UpdateRole(5, data)
    \/ \E data \in {[role_id |-> 5], [is_active |-> FALSE]} :
           UpdateUser(2, data)
    \/ \E id \in DOMAIN users : DeleteUserPermanently(id)
    \/ \E h \in AuthHeaders : Authenticate(h)
    \/ \E h \in AuthHeaders : OptionalAuthenticate(h)
    \/ Advance(ACCESS_TOKEN_TTL)

SpecAuth == Init /\ [][NextAuth]_vars

\* The permission middlewares: right-password logins, the ordinary user
\* moved between the 'user' role and the custom role, that role's permissions
\* edited and the role deactivated, and requests through each permission
\* middleware
NextGuard ==
    \/ \E c \in SessionCredentials : Login(c[1], c[2])
    \/ \E data \in UserRoleUpdates : UpdateUser(2, data)
    \/ \E data \in RolePermissionUpdates \cup {[is_active |-> FALSE]} :
           UpdateRole(5, data)
    \/ \E r \in GuardRequests, p \in GuardPermissions :
           RequirePermission(r[1], r[2], p)
    \/ \E r \in GuardRequests, l \in GuardPermissionLists :
           RequireAnyPermission(r[1], r[2], l)
    \/ \E r \in GuardRequests, l \in GuardPermissionLists :
           RequireAllPermissions(r[1], r[2], l)
    \/ \E r \in GuardRequests, o \in ResourceOwners :
           RequireOwnership(r[1], r[2], o)
    \/ \E r \in GuardRequests, n \in GuardRoleNames :
           RequireRole(r[1], r[2], n)

SpecGuard == Init /\ [][NextGuard]_vars

\* Registration: register calls of two concurrent requests, the custom role
\* and the ordinary user (de)activated, and logins with the new email
NextRegister ==
    \/ \E p \in Requests, data \in RegisterInputs : RegisterStart(p, data)
    \/ \E p \in Requests : RegisterInsert(p)
    \/ \E data \in RoleStatusUpdates : UpdateRole(5, data)
    \/ \E data \in UserStatusUpdates : UpdateUser(2, data)
    \/ Login("b@x.com", "Secret123!")

SpecRegister == Init /\ [][NextRegister]_vars

-----------------------------------------------------------------------------
(* Properties of the login-attempt guard, checked under SpecLogin *)

Response(r) == <<r.status, r.code, r.message>>

\* The last call was a login with a wrong password for an existing, active
\* account whose lock, if any, had run out: a call that counts as an attempt
CountedWrongLogin ==
    /\ res.op = "login"
    /\ res.user.id # NULL
    /\ res.user.is_active
    /\ (res.user.locked_until = NULL \/ res.user.locked_until <= res.at)
    /\ users[res.user.id].password_hash # bcryptHash(res.password)

\* C1: counted from a fresh account (no failed attempts, no lock), each of
\* the first 4 consecutive wrong-password logins fails with
\* INVALID_CREDENTIALS and leaves the account unlocked; the 5th fails with
\* ACCOUNT_LOCKED and leaves locked_until = time of the call + 15 minutes and
\* login_attempts = 0.
C1_LockoutThreshold ==
    CountedWrongLogin =>
        LET id == res.user.id
            k == streak[id]
        IN  /\ k \in 1..5
            /\ ~res.ok
            /\ k <= 4 =>
                  /\ res.code = INVALID_CREDENTIALS
                  /\ Unlocked(id)
                  /\ users[id].login_attempts = k
            /\ k = 5 =>
                  /\ res.code = ACCOUNT_LOCKED
                  /\ users[id].locked_until = res.at + 15 * 60
                  /\ users[id].locked_until > now
                  /\ users[id].login_attempts = 0

C1_Witness ==
    /\ CountedWrongLogin
    /\ streak[res.user.id] = 5
    /\ res.code = ACCOUNT_LOCKED

\* C2: a login for a user whose locked_until is strictly in the future fails
\* with ACCOUNT_LOCKED whatever the password, without comparing the password,
\* and leaves login_attempts, locked_until, last_login (the users table) and
\* the sessions unchanged.
C2_LockedLoginRejected ==
    [][(/\ res'.op = "login"
        /\ \E id \in UserOfEmail(res'.email) :
               users[id].locked_until # NULL /\ users[id].locked_until > now)
       => /\ ~res'.ok
          /\ res'.code = ACCOUNT_LOCKED
          /\ ~res'.compared
          /\ users' = users
          /\ sessions' = sessions]_vars

C2_Witness ==
    /\ res.op = "login"
    /\ res.user.id # NULL
    /\ res.user.locked_until # NULL
    /\ res.user.locked_until > res.at
    /\ users[res.user.id].password_hash = bcryptHash(res.password)
    /\ res.code = ACCOUNT_LOCKED
    /\ res.at > 0

\* C7: a login with the right password for an active user whose locked_until
\* is unset or not in the future succeeds and leaves login_attempts = 0,
\* locked_until cleared and last_login = the time of the call, whatever the
\* attempt count was before.
C7_LockExpiryAndReset ==
    [][(/\ res'.op = "login"
        /\ \E id \in UserOfEmail(res'.email) :
               RightPasswordCall(id, res'.password))
       => /\ res'.ok
          /\ \A id \in UserOfEmail(res'.email) :
                /\ users'[id].login_attempts = 0
                /\ users'[id].locked_until = NULL
                /\ users'[id].last_login = now]_vars

C7_Witness ==
    /\ res.op = "login"
    /\ res.ok
    /\ res.user.locked_until # NULL
    /\ res.user.locked_until < res.at
    /\ res.user.login_attempts > 0
    /\ users[res.user.id].locked_until = NULL

\* C10 as stated: a login for an email with no user record fails with the
\* same status, code and message as every wrong-password failure for an
\* existing unlocked active user, and changes no stored state.
C10_NoExistenceLeak_AsStated ==
    [][(res'.op = "login" /\ UserOfEmail(res'.email) = {})
       => /\ UNCHANGED <<users, roles, sessions, tokens, refreshJwts>>
          /\ \A id \in DOMAIN users :
                WrongPasswordCall(id, res'.password)
                => Response(res') =
                       Response(loginUser(users[id].email, res'.password))]_vars

\* C10 amended: the same, for the wrong-password failures that do not trip
\* the lockout threshold (fewer than 4 failed attempts counted before the
\* call); the 5th consecutive failure answers 423 ACCOUNT_LOCKED instead.
C10_NoExistenceLeak ==
    [][(res'.op = "login" /\ UserOfEmail(res'.email) = {})
       => /\ UNCHANGED <<users, roles, sessions, tokens, refreshJwts>>
          /\ \A id \in DOMAIN users :
                (WrongPasswordCall(id, res'.password)
                 /\ users[id].login_attempts < 4)
                => Response(res') =
                       Response(loginUser(users[id].email, res'.password))]_vars

C10_Witness ==
    /\ res.op = "login"
    /\ UserOfEmail(res.email) = {}
    /\ ~res.ok
    /\ \E id \in DOMAIN users :
          /\ WrongPasswordCall(id, res.password)
          /\ users[id].login_attempts \in 1..3

\* C11: the checks of a login are ordered and each is a hard stop: an
\* unknown email fails first; then a user whose lock is in the future gets
\* the lock failure (423), active or not; then an inactive user fails with
\* ACCOUNT_LOCKED and the disabled-account message whatever the password;
\* only then is the password compared.  The three early failures compare no
\* password and leave the users table and the sessions unchanged.
C11_LoginCheckOrder ==
    [][res'.op = "login"
       => LET ids == UserOfEmail(res'.email)
          IN  /\ ids = {} => /\ res'.code = INVALID_CREDENTIALS
                             /\ ~res'.compared
                             /\ users' = users /\ sessions' = sessions
              /\ \A id \in ids :
                    LET locked == /\ users[id].locked_until # NULL
                                  /\ users[id].locked_until > now
                    IN  /\ locked
                           => /\ ~res'.ok
                              /\ res'.status = 423
                              /\ res'.code = ACCOUNT_LOCKED
                              /\ res'.message = "Cuenta bloqueada temporalmente"
                              /\ ~res'.compared
                              /\ users' = users /\ sessions' = sessions
                        /\ (~locked /\ ~users[id].is_active)
                           => /\ ~res'.ok
                              /\ res'.code = ACCOUNT_LOCKED
                              /\ res'.message = "Cuenta deshabilitada"
                              /\ ~res'.compared
                              /\ users' = users /\ sessions' = sessions
                        /\ (~locked /\ users[id].is_active)
                           => res'.compared]_vars

\* a wrong-password login for an inactive, unlocked user that had failed
\* attempts counted: it was answered without counting another
C11_Witness ==
    /\ res.op = "login"
    /\ res.user.id # NULL
    /\ ~res.user.is_active
    /\ ~(res.user.locked_until # NULL /\ res.user.locked_until > res.at)
    /\ res.user.login_attempts > 0
    /\ users[res.user.id].password_hash # bcryptHash(res.password)
    /\ res.code = ACCOUNT_LOCKED

-----------------------------------------------------------------------------
(* Properties of session revocation, checked under SpecSession *)

\* The last call was authenticate with a bearer access token whose signature
\* and expiry verified at the time of the call
AuthenticatedWithValidAccessToken ==
    /\ res.op = "authenticate"
    /\ res.header.scheme = "Bearer"
    /\ res.header.token.typ = "JWT"
    /\ "permissions" \in DOMAIN res.header.token
    /\ res.at < res.header.token.exp

\* C3: for an access token issued for session S whose signature and expiry
\* still verify, every authenticate call made after logoutUser(S) completed
\* fails with TOKEN_INVALID and attaches no user and no session.
C3_RevocationBeatsExpiry ==
    (AuthenticatedWithValidAccessToken
     /\ res.header.token.session_id \in revoked)
    => /\ ~res.ok
       /\ res.code = TOKEN_INVALID
       /\ res.user = NoUser
       /\ res.session = NULL

C3_Witness ==
    /\ AuthenticatedWithValidAccessToken
    /\ res.header.token.session_id \in revoked
    /\ sessions[res.header.token.session_id].expires_at > res.at
    /\ users[res.header.token.user_id].is_active
    /\ res.code = TOKEN_INVALID

SessionsOfSecret(value) ==
    {id \in DOMAIN sessions : sessions[id].refresh_token = value}

\* C6: refreshAccessToken succeeds only if the supplied value is the stored
\* refresh secret of a session that is active and unexpired at the time of
\* the call; with the secret of a session that was revoked by logoutUser or
\* logoutAllSessions, or that has expired, it fails with
\* REFRESH_TOKEN_INVALID and returns no token.
C6_RefreshNeedsLiveSession ==
    res.op = "refresh" =>
        /\ res.ok =>
              \E id \in SessionsOfSecret(res.input) :
                  /\ sessions[id].is_active
                  /\ sessions[id].expires_at > res.at
                  /\ id \notin revoked
                  /\ res.session_id = id
        /\ \A id \in SessionsOfSecret(res.input) :
              (id \in revoked \/ sessions[id].expires_at <= res.at)
              => /\ ~res.ok
                 /\ res.code = REFRESH_TOKEN_INVALID
                 /\ res.access_token = NoToken

C6_Witness ==
    /\ res.op = "refresh"
    /\ res.code = REFRESH_TOKEN_INVALID
    /\ \E id \in SessionsOfSecret(res.input) :
          /\ sessions[id].is_active
          /\ sessions[id].expires_at <= res.at
    /\ \E id \in DOMAIN sessions : id \in revoked

\* C8: logoutUser(S) leaves session S inactive and changes nothing else: S
\* keeps its owner, expiry and secrets, every other session of every user is
\* unchanged, no row is added or removed, and a second logoutUser(S) changes
\* nothing.
C8_LogoutRevokesOneSession ==
    [][res'.op = "logout"
       => LET S == res'.session_id
          IN  /\ DOMAIN sessions' = DOMAIN sessions
              /\ \A id \in DOMAIN sessions :
                    IF id = S
                    THEN sessions'[id] = [sessions[id] EXCEPT !.is_active = FALSE]
                    ELSE sessions'[id] = sessions[id]
              /\ (S \in DOMAIN sessions /\ ~sessions[S].is_active)
                    => sessions' = sessions
              /\ UNCHANGED <<users, roles>>]_vars

C8_Witness ==
    /\ res.op = "logout"
    /\ res.session_id \in DOMAIN sessions
    /\ ~sessions[res.session_id].is_active
    /\ \E id \in DOMAIN sessions :
          /\ id # res.session_id
          /\ sessions[id].user_id = sessions[res.session_id].user_id
          /\ sessions[id].is_active

\* C9: logoutAllSessions(U) makes every session of user U inactive and
\* leaves the sessions of every other user unchanged; afterwards authenticate
\* accepts no token bound to one of those sessions and refreshAccessToken
\* accepts none of their refresh secrets.
C9_LogoutAllRevokesUser ==
    [][/\ res'.op = "logoutAll"
          => /\ DOMAIN sessions' = DOMAIN sessions
             /\ \A id \in DOMAIN sessions :
                   IF sessions[id].user_id = res'.user_id
                   THEN sessions'[id] = [sessions[id] EXCEPT !.is_active = FALSE]
                   ELSE sessions'[id] = sessions[id]
       /\ (/\ res'.op = "authenticate"
           /\ res'.header.scheme = "Bearer"
           /\ res'.header.token.typ = "JWT"
           /\ res'.header.token.session_id \in revoked)
          => (~res'.ok /\ res'.user = NoUser /\ res'.session = NULL)
       /\ (/\ res'.op = "refresh"
           /\ \E id \in SessionsOfSecret(res'.input) : id \in revoked)
          => (~res'.ok /\ res'.access_token = NoToken /\ tokens' = tokens)]_vars

C9_Witness ==
    /\ res.op = "logoutAll"
    /\ \E id \in DOMAIN sessions :
          /\ sessions[id].user_id = res.user_id
          /\ sessions[id].expires_at > res.at
          /\ ~sessions[id].is_active
          /\ id \in revoked
    /\ \E id \in DOMAIN sessions :
          sessions[id].user_id # res.user_id /\ sessions[id].is_active

-----------------------------------------------------------------------------
(* Properties of token refresh, checked under SpecRefresh *)

\* C4: the refresh_token of a login response, passed to refreshAccessToken
\* while the session of that login is active and unexpired and its user is
\* active, yields an access token bound to that session.
C4_LoginRefreshTokenUsable ==
    (/\ res.op = "refresh"
     /\ res.input \in refreshJwts
     /\ sessions[res.input.session_id].is_active
     /\ sessions[res.input.session_id].expires_at > res.at
     /\ users[res.input.user_id].is_active)
    => /\ res.ok
       /\ res.access_token.session_id = res.input.session_id

\* C5: the role name and permission list embedded in the access token of a
\* successful refresh are those stored for the user's role at the time of
\* the refresh.
C5_RefreshReflectsLivePermissions ==
    (res.op = "refresh" /\ res.ok)
    => LET u == users[sessions[res.session_id].user_id]
       IN  /\ res.access_token.user_id = sessions[res.session_id].user_id
           /\ res.access_token.role = roles[u.role_id].name
           /\ res.access_token.permissions = roles[u.role_id].permissions

\* a refresh succeeded for a session whose login token carries other permissions
C5_Witness ==
    /\ res.op = "refresh"
    /\ res.ok
    /\ \E t \in tokens :
          /\ t.session_id = res.session_id
          /\ t.iat < res.at
          /\ t.permissions # res.access_token.permissions

-----------------------------------------------------------------------------
(* Properties of the authenticate middleware, checked under SpecAuth *)

\* The session a token names is active and unexpired
SessionLive(token) ==
    /\ token.session_id \in DOMAIN sessions
    /\ sessions[token.session_id].is_active
    /\ sessions[token.session_id].expires_at > now

\* C12: authenticate classifies failures in this precedence: no
\* Authorization header or one that is not 'Bearer ...' gives TOKEN_INVALID;
\* a token failing verification gives the codec's TOKEN_EXPIRED or
\* TOKEN_INVALID unchanged; a session that is not active and unexpired gives
\* TOKEN_INVALID; a missing user gives TOKEN_INVALID; an inactive user gives
\* ACCOUNT_LOCKED; an inactive role gives PERMISSION_DENIED.  A failure
\* attaches no user and no session; success attaches the token's user and
\* session.
C12_AuthenticateFailurePrecedence ==
    res.op = "authenticate" =>
        LET h == res.header
            t == h.token
        IN  /\ IF h.scheme # "Bearer"
               THEN ~res.ok /\ res.code = TOKEN_INVALID
               ELSE IF ~verifyAccessToken(t).ok
               THEN /\ ~res.ok
                    /\ res.code = verifyAccessToken(t).code
                    /\ res.code \in {TOKEN_EXPIRED, TOKEN_INVALID}
               ELSE IF ~SessionLive(t)
               THEN ~res.ok /\ res.code = TOKEN_INVALID
               ELSE IF t.user_id \notin DOMAIN users
               THEN ~res.ok /\ res.code = TOKEN_INVALID
               ELSE IF ~users[t.user_id].is_active
               THEN ~res.ok /\ res.code = ACCOUNT_LOCKED
               ELSE IF ~roles[users[t.user_id].role_id].is_active
               THEN ~res.ok /\ res.code = PERMISSION_DENIED
               ELSE /\ res.ok
                    /\ res.user.id = t.user_id
                    /\ res.session = t.session_id
            /\ ~res.ok => (res.user = NoUser /\ res.session = NULL)

\* a verified token on a live session whose user and role are both inactive:
\* the user check comes first
C12_Witness ==
    /\ res.op = "authenticate"
    /\ res.header.scheme = "Bearer"
    /\ verifyAccessToken(res.header.token).ok
    /\ SessionLive(res.header.token)
    /\ res.header.token.user_id \in DOMAIN users
    /\ ~users[res.header.token.user_id].is_active
    /\ ~roles[users[res.header.token.user_id].role_id].is_active
    /\ res.code = ACCOUNT_LOCKED

\* The permission list embedded in a token; a refresh JWT embeds none
EmbeddedPermissions(token) ==
    IF "permissions" \in DOMAIN token THEN token.permissions ELSE {}

\* C14: the permission set attached by a successful authenticate is the
\* role's stored permission set when that set is non-empty, and the
\* permission list embedded in the token when the stored set is empty.
C14_AttachedPermissions ==
    (res.op = "authenticate" /\ res.ok)
    => LET t == res.header.token
           live == roles[users[t.user_id].role_id].permissions
       IN  res.user.role.permissions =
               IF live # {} THEN live ELSE EmbeddedPermissions(t)

\* C15: optionalAuthenticate always continues without an error, and attaches
\* a user and a session exactly when authenticate succeeds for the same
\* header on the same stored state, the same ones; otherwise it attaches
\* nothing.
C15_OptionalAuthenticateNeverFails ==
    res.op = "optionalAuthenticate" =>
        LET a == authenticate(res.header)
        IN  /\ res.ok
            /\ a.ok => (res.user = a.user /\ res.session = a.session)
            /\ ~a.ok => (res.user = NoUser /\ res.session = NULL)
            /\ res.user # NoUser
               <=> /\ res.header.scheme = "Bearer"
                   /\ verifyAccessToken(res.header.token).ok
                   /\ SessionLive(res.header.token)
                   /\ res.header.token.user_id \in DOMAIN users
                   /\ users[res.header.token.user_id].is_active
                   /\ roles[users[res.header.token.user_id].role_id].is_active

\* a verified token on a live session of an active user whose role is
\* inactive: the request went on as a guest
C15_Witness ==
    /\ res.op = "optionalAuthenticate"
    /\ res.header.scheme = "Bearer"
    /\ verifyAccessToken(res.header.token).ok
    /\ SessionLive(res.header.token)
    /\ users[res.header.token.user_id].is_active
    /\ ~roles[users[res.header.token.user_id].role_id].is_active
    /\ res.ok
    /\ res.user = NoUser

-----------------------------------------------------------------------------
(* Properties of the permission middlewares, checked under SpecGuard *)

GuardOps == {"requirePermission", "requireAnyPermission",
             "requireAllPermissions", "requireOwnership", "requireRole"}

\* C13: across authenticate and the permission middlewares, every failure
\* with code PERMISSION_DENIED carries status 403, every not-authenticated
\* failure (TOKEN_INVALID, TOKEN_EXPIRED, no identity) carries 401 and every
\* RESOURCE_NOT_FOUND carries 404.
C13_StatusSeparatesFailures ==
    (res.op \in GuardOps /\ ~res.ok)
    => /\ res.code = PERMISSION_DENIED => res.status = 403
       /\ res.code \in {TOKEN_INVALID, TOKEN_EXPIRED} => res.status = 401
       /\ res.code = RESOURCE_NOT_FOUND => res.status = 404
       /\ (res.reached /\ res.user = NoUser) => res.status = 401

\* The last call reached the named permission middleware
Reached(op) == res.op = op /\ res.reached

Elements(list) == {list[i] : i \in 1..Len(list)}

\* C16: requirePermission(p) passes an identity with permission set P iff
\* p is in P or '*' is in P (so a role holding only '*' passes for every p);
\* otherwise it fails with PERMISSION_DENIED (403); with no identity attached
\* it fails with 401.
C16_RequirePermission ==
    Reached("requirePermission") =>
        IF res.user = NoUser
        THEN ~res.ok /\ res.status = 401
        ELSE LET P == res.user.role.permissions
             IN  /\ res.ok <=> (res.arg \in P \/ "*" \in P)
                 /\ ~res.ok => (res.code = PERMISSION_DENIED /\ res.status = 403)

\* a role holding only '*' passed for a permission it does not list
C16_Witness ==
    /\ Reached("requirePermission")
    /\ res.user # NoUser
    /\ res.user.role.permissions = {"*"}
    /\ res.arg # "*"
    /\ res.ok

\* C17: requireAnyPermission(L) passes iff some element of L is in P or '*'
\* is in P; requireAllPermissions(L) passes iff every element of L is in P or
\* '*' is in P.  For the empty list requireAny passes only for a wildcard
\* holder and requireAll passes for every authenticated identity.
C17_RequireAnyAndAll ==
    /\ (Reached("requireAnyPermission") /\ res.user # NoUser)
       => LET P == res.user.role.permissions
          IN  /\ res.ok <=> (Elements(res.arg) \cap P # {} \/ "*" \in P)
              /\ res.arg = <<>> => (res.ok <=> "*" \in P)
              /\ ~res.ok => (res.code = PERMISSION_DENIED /\ res.status = 403)
    /\ (Reached("requireAllPermissions") /\ res.user # NoUser)
       => LET P == res.user.role.permissions
          IN  /\ res.ok <=> (Elements(res.arg) \subseteq P \/ "*" \in P)
              /\ res.arg = <<>> => res.ok
              /\ ~res.ok => (res.code = PERMISSION_DENIED /\ res.status = 403)

\* requireAllPermissions over the empty list passed an identity without the
\* wildcard
C17_Witness ==
    /\ Reached("requireAllPermissions")
    /\ res.user # NoUser
    /\ "*" \notin res.user.role.permissions
    /\ res.arg = <<>>
    /\ res.ok

\* C18: requireRole(names) passes iff the identity's role name is one of
\* names; the wildcard permission does not make it pass.
C18_RequireRole ==
    (Reached("requireRole") /\ res.user # NoUser)
    => /\ res.ok <=> res.user.role.name \in Elements(res.arg)
       /\ ~res.ok => (res.code = PERMISSION_DENIED /\ res.status = 403)

\* a wildcard holder whose role name is not listed was refused
C18_Witness ==
    /\ Reached("requireRole")
    /\ res.user # NoUser
    /\ "*" \in res.user.role.permissions
    /\ res.user.role.name \notin Elements(res.arg)
    /\ ~res.ok
    /\ res.status = 403

\* The owner id could not be resolved: undefined, or 0, which is no user id
Unresolved(resourceUserId) == resourceUserId = NULL \/ resourceUserId = 0

\* C19: requireOwnership answers, in this precedence: 401 with no identity
\* attached; RESOURCE_NOT_FOUND (404) when the owner id is not resolvable,
\* even for a wildcard holder; otherwise it passes iff the identity's id is
\* the owner id or '*' is in its permissions, and fails with
\* PERMISSION_DENIED (403) if neither holds.
C19_RequireOwnership ==
    Reached("requireOwnership") =>
        IF res.user = NoUser
        THEN ~res.ok /\ res.status = 401
        ELSE IF Unresolved(res.arg)
        THEN ~res.ok /\ res.code = RESOURCE_NOT_FOUND /\ res.status = 404
        ELSE /\ res.ok <=> \/ res.user.id = res.arg
                           \/ "*" \in res.user.role.permissions
             /\ ~res.ok => (res.code = PERMISSION_DENIED /\ res.status = 403)

\* a wildcard holder asked for a resource whose owner is undefined: 404
C19_Witness ==
    /\ Reached("requireOwnership")
    /\ res.user # NoUser
    /\ "*" \in res.user.role.permissions
    /\ res.arg = NULL
    /\ res.status = 404

-----------------------------------------------------------------------------
(* Properties of registration, checked under SpecRegister *)

UsersWithEmail(tbl, email) == {id \in DOMAIN tbl : tbl[id].email = email}

\* C20: a registerUser call made when some user, active or inactive, has the
\* email is rejected with DUPLICATE_ENTRY; one made for a free email and a
\* role (role 4 when none is given) that does not exist or is inactive is
\* rejected with VALIDATION_ERROR; neither creates a user.  A successful
\* call creates exactly one user, with that email and role, and no session
\* or token.  Whatever the interleaving of register calls, at most one user
\* exists per email.
C20_RegisterUser ==
    [][/\ (res'.op = "registerUser" /\ res'.step = "checks")
          => LET data == res'.data
                 roleId == IF data.role_id = NULL THEN 4 ELSE data.role_id
                 taken == UsersWithEmail(users, data.email) # {}
                 badRole == roleId \notin DOMAIN roles \/ ~roles[roleId].is_active
             IN  /\ taken => (~res'.ok /\ res'.code = DUPLICATE_ENTRY)
                 /\ (~taken /\ badRole)
                    => (~res'.ok /\ res'.code = VALIDATION_ERROR)
                 /\ (~taken /\ ~badRole) => res'.ok
                 /\ UNCHANGED <<users, sessions, tokens, refreshJwts>>
       /\ (res'.op = "registerUser" /\ res'.step = "insert")
          => /\ UNCHANGED <<sessions, tokens, refreshJwts>>
             /\ IF res'.ok
                THEN /\ res'.user.id \notin DOMAIN users
                     /\ DOMAIN users' = DOMAIN users \cup {res'.user.id}
                     /\ \A id \in DOMAIN users : users'[id] = users[id]
                     /\ users'[res'.user.id].email = res'.email
                     /\ users'[res'.user.id].role_id = res'.user.role_id
                ELSE users' = users
       /\ \A email \in {users'[id].email : id \in DOMAIN users'} :
             Cardinality(UsersWithEmail(users', email)) = 1]_vars

\* two register calls for the same free email passed their checks; the first
\* insert created the user and the second was refused by the UNIQUE index
C20_Witness ==
    /\ res.op = "registerUser"
    /\ res.step = "insert"
    /\ ~res.ok
    /\ Cardinality(UsersWithEmail(users, res.email)) = 1
    /\ \A p \in Requests : calls[p] = Idle

-----------------------------------------------------------------------------
(* Properties of the token codec *)

\* The string is one or more decimal digits followed by the given unit
IsDigits(str) ==
    Len(str) > 0 /\ \A i \in 1..Len(str) : str[i] \in DOMAIN DigitValue

RECURSIVE Decimal(_)
Decimal(str) ==
    IF Len(str) = 0 THEN 0
    ELSE 10 * Decimal(SubSeq(str, 1, Len(str) - 1)) + DigitValue[str[Len(str)]]

UnitFactor == [s |-> 1, m |-> 60, h |-> 3600, d |-> 86400]

\* C21: getAccessTokenExpirationTime returns n for the TTL string 'ns',
\* 60*n for 'nm', 3600*n for 'nh' and 86400*n for 'nd' (900 for '15m'), and
\* 3600 for every TTL string whose last character is not s, m, h or d,
\* including a string without a unit and the empty string.
C21_ExpirationSeconds ==
    res.op = "getAccessTokenExpirationTime" =>
        LET str == res.input
            n == Len(str)
        IN  /\ (n = 0 \/ str[n] \notin DOMAIN UnitFactor)
               => res.value = Num(3600)
            /\ (n > 1 /\ str[n] \in DOMAIN UnitFactor
                      /\ IsDigits(SubSeq(str, 1, n - 1)))
               => res.value =
                      Num(UnitFactor[str[n]] * Decimal(SubSeq(str, 1, n - 1)))
            /\ str = <<"1", "5", "m">> => res.value = Num(900)

C21_Witness ==
    /\ res.op = "getAccessTokenExpirationTime"
    /\ res.input = <<"1", "5", "m">>
    /\ res.value = Num(900)

\* C22: verifyAccessToken and verifyRefreshToken both fail with TokenExpired
\* when the token is well-formed and correctly signed for this issuer and
\* audience but past its expiry, and with TokenInvalid for every other
\* failure (malformed token, bad signature, wrong issuer or audience).
C22_ExpiredVersusInvalid ==
    (res.op \in {"verifyAccessToken", "verifyRefreshToken"} /\ ~res.ok)
        => res.code = IF res.token.typ = "JWT" /\ res.at >= res.token.exp
                      THEN TOKEN_EXPIRED
                      ELSE TOKEN_INVALID

-----------------------------------------------------------------------------
(* Properties of role and user administration *)

\* C23: in every reachable state each user references an existing role: no
\* interleaving of registerUser, createUser, updateUser, deleteRole,
\* updateRole and toggleRoleStatus leaves a user whose role_id names a
\* deleted or never-existing role.
C23_UsersReferenceRoles ==
    \A id \in DOMAIN users : users[id].role_id \in DOMAIN roles

\* A write that named the custom role was refused after the role had been
\* deleted under it
C23_Witness ==
    /\ 5 \notin DOMAIN roles
    /\ res.op \in {"registerUser", "createUser", "updateUser"}
    /\ res.done /\ ~res.ok /\ res.status = 500
    /\ C23_UsersReferenceRoles

-----------------------------------------------------------------------------
(* Properties of overlapping logins *)

\* C24: a lock is never cleared while its window is still running, in every
\* interleaving of login calls for one account: once locked_until is set to
\* a time in the future, no step clears it or moves it earlier before that
\* time has passed.
C24_LockOutlastsItsWindow ==
    [][\A id \in DOMAIN users \cap DOMAIN users' :
          (users[id].locked_until # NULL /\ users[id].locked_until > now')
              => /\ users'[id].locked_until # NULL
                 /\ users'[id].locked_until >= users[id].locked_until]_vars

LoginInProgress == \E p \in Requests : calls[p].pc # "idle"

\* C26: whenever no login call for a user is in progress, the user's
\* login_attempts is between 0 and 4, after any sequence and interleaving of
\* login calls from a fresh user; the counter is 5 or more only inside the
\* calls that are about to lock the account.
C26_AttemptsBelowThreshold ==
    ~LoginInProgress
        => \A id \in DOMAIN users :
               users[id].login_attempts \in 0..(MAX_LOGIN_ATTEMPTS - 1)

\* Two wrong-password calls overlapped at the threshold: one locked the
\* account, the other read the counter after it had been reset and answered
\* with invalid credentials
C26_Witness ==
    /\ ~LoginInProgress
    /\ res.op = "loginUser" /\ res.step = "attempts"
    /\ res.attempts = 0 /\ res.status = 401
    /\ users[2].locked_until # NULL /\ users[2].locked_until > now
    /\ users[2].login_attempts = 0

-----------------------------------------------------------------------------
(* Properties of the gates for locked, inactive and missing users *)

Unauthenticated(id) == id \notin DOMAIN users \/ ~users[id].is_active

LiveSession(sid) ==
    sessions[sid].is_active /\ sessions[sid].expires_at > now

\* C25: while a user is inactive or missing, the user is unauthenticated
\* everywhere: loginUser fails, refreshAccessToken fails (with TOKEN_INVALID
\* when the secret is that of a session that is still active and unexpired),
\* and authenticate fails although the access token still verifies.
C25_InactiveOrMissingFails ==
    /\ (res.op = "login" /\ (res.user.id = NULL \/ ~res.user.is_active))
           => ~res.ok
    /\ res.op = "refresh"
           => \A sid \in SessionsOfSecret(res.input) :
                  Unauthenticated(sessions[sid].user_id)
                      => /\ ~res.ok
                         /\ LiveSession(sid) => res.code = TOKEN_INVALID
    /\ (res.op = "authenticate" /\ res.header.scheme = "Bearer"
           /\ res.header.token.typ = "JWT"
           /\ Unauthenticated(res.header.token.user_id))
           => ~res.ok

\* The refresh secret of a live session of a deactivated user, who also holds
\* an access token that still verifies, was refused
C25_Witness ==
    /\ res.op = "refresh" /\ ~res.ok /\ res.code = TOKEN_INVALID
    /\ \E sid \in SessionsOfSecret(res.input) :
           /\ LiveSession(sid)
           /\ sessions[sid].user_id \in DOMAIN users
           /\ ~users[sessions[sid].user_id].is_active
           /\ \E t \in tokens : t.session_id = sid /\ verifyAccessToken(t).ok

AuthCoreOps == {"login", "refresh", "logout", "logoutAll", "authenticate"}

\* C27: a session row is created only by a loginUser call that passed every
\* check: a successful login adds exactly one session, active, owned by the
\* user and expiring 7 days after the call; a failed login adds none; a login
\* changes no existing session; and no operation of the auth core sets an
\* inactive session back to active or removes a session row.
C27_SessionLifecycle ==
    [][/\ res'.op \in AuthCoreOps
          => /\ DOMAIN sessions \subseteq DOMAIN sessions'
             /\ \A sid \in DOMAIN sessions :
                    sessions'[sid].is_active => sessions[sid].is_active
             /\ DOMAIN sessions' # DOMAIN sessions
                    => res'.op = "login" /\ res'.ok
       /\ res'.op = "login"
          => /\ \A sid \in DOMAIN sessions : sessions'[sid] = sessions[sid]
             /\ IF res'.ok
                THEN /\ res'.session_id \notin DOMAIN sessions
                     /\ DOMAIN sessions' =
                            DOMAIN sessions \cup {res'.session_id}
                     /\ sessions'[res'.session_id].is_active
                     /\ sessions'[res'.session_id].user_id = res'.user.id
                     /\ sessions'[res'.session_id].expires_at
                            = now + SESSION_TTL
                ELSE sessions' = sessions]_vars

\* A login succeeded while an earlier session of the same user was revoked
\* and stayed so
C27_Witness ==
    /\ res.op = "login" /\ res.ok
    /\ sessions[res.session_id].is_active
    /\ sessions[res.session_id].expires_at = res.at + SESSION_TTL
    /\ \E sid \in DOMAIN sessions :
           /\ sid # res.session_id
           /\ sessions[sid].user_id = res.user.id
           /\ ~sessions[sid].is_active

-----------------------------------------------------------------------------
(* Frame of refreshAccessToken *)

\* The time of the login that created the session: the issue time of its
\* first access token
LoginTime(sid) ==
    LET issued == {t.iat : t \in {x \in tokens : x.session_id = sid}}
    IN  CHOOSE iat \in issued : \A o \in issued : iat <= o

\* C28: refreshAccessToken reads only and rotates nothing: it changes no
\* session (active flag, expiry, secrets) and no user (login_attempts,
\* locked_until, last_login), on success it returns as refresh_token exactly
\* the value it was given, and the session still expires 7 days after the
\* login that created it.
C28_RefreshIsReadOnly ==
    [][res'.op = "refresh"
       => /\ UNCHANGED <<users, roles, sessions, refreshJwts>>
          /\ res'.ok
                => /\ res'.refresh_token = res'.input
                   /\ sessions'[res'.session_id].refresh_token = res'.input
                   /\ sessions'[res'.session_id].expires_at
                          = LoginTime(res'.session_id) + SESSION_TTL]_vars

\* A refresh succeeded some time after the login for a user with failed
\* attempts on the counter, and the session still ends 7 days after the login
C28_Witness ==
    /\ res.op = "refresh" /\ res.ok
    /\ res.refresh_token = res.input
    /\ res.at > LoginTime(res.session_id)
    /\ sessions[res.session_id].expires_at < res.at + SESSION_TTL
    /\ users[sessions[res.session_id].user_id].login_attempts > 0

-----------------------------------------------------------------------------
(* The lockout and the other gates *)

LockedAfter(id) ==
    /\ id \in DOMAIN users'
    /\ users'[id].locked_until # NULL
    /\ users'[id].locked_until > now'

\* C29: the lockout gates only the password login.  While a user is locked,
\* authenticate with an unexpired access token of an active session of the
\* user and refreshAccessToken with the stored refresh secret of that session
\* succeed as they do for an unlocked user, and the login that sets the lock
\* changes no session.
C29_LockoutGatesOnlyLogin ==
    [][/\ (/\ res'.op = "authenticate"
           /\ res'.header.scheme = "Bearer"
           /\ res'.header.token \in tokens
           /\ now < res'.header.token.exp
           /\ SessionLive(res'.header.token)
           /\ LockedAfter(res'.header.token.user_id)
           /\ users[res'.header.token.user_id].is_active)
          => res'.ok
       /\ res'.op = "refresh"
          => \A sid \in SessionsOfSecret(res'.input) :
                 (/\ LiveSession(sid)
                  /\ LockedAfter(sessions[sid].user_id)
                  /\ users[sessions[sid].user_id].is_active)
                     => res'.ok /\ res'.session_id = sid
       /\ (res'.op = "login" /\ res'.status = 423 /\ res'.compared)
          => /\ LockedAfter(res'.user.id)
             /\ sessions' = sessions]_vars

\* A locked user passed authenticate with the access token of a session
\* that was active before the lock and still is
C29_Witness ==
    /\ res.op = "authenticate" /\ res.ok
    /\ users[res.user.id].locked_until # NULL
    /\ users[res.user.id].locked_until > now
    /\ sessions[res.session].is_active

-----------------------------------------------------------------------------
(* Protection of the super administrator *)

\* C30: no user-management operation (deleteUser, deleteUserPermanently,
\* toggleUserStatus, updateUser) deactivates or deletes a user whose role is
\* super_admin: after any sequence of them every user who was super_admin
\* initially still exists and is active.
C30_SuperAdminStays ==
    \A id \in DOMAIN InitUsers :
        InitRoles[InitUsers[id].role_id].name = "super_admin"
            => id \in DOMAIN users /\ users[id].is_active

====
